---- MODULE Spec2Model ----
(***************************************************************************)
(* A model of the IMAP interception proxy of src/backend/main.py.          *)
(*                                                                         *)
(* Bytes are one-character strings, byte strings are sequences of them.    *)
(* The session (ImapProxySession.handle) is one sequential task; the mail  *)
(* client and the upstream IMAP server are its environment.                *)
(***************************************************************************)
EXTENDS Integers, Sequences, FiniteSets, TLC

(***************************************************************************)
(* Byte strings                                                            *)
(***************************************************************************)
CR == "\r"
LF == "\n"
SP == " "
CRLF == <<CR, LF>>

Digits == <<"0", "1", "2", "3", "4", "5", "6", "7", "8", "9">>
Lower == <<"a", "b", "c", "d", "e", "f", "g", "h", "i", "j", "k", "l", "m",
           "n", "o", "p", "q", "r", "s", "t", "u", "v", "w", "x", "y", "z">>
Upper == <<"A", "B", "C", "D", "E", "F", "G", "H", "I", "J", "K", "L", "M",
           "N", "O", "P", "Q", "R", "S", "T", "U", "V", "W", "X", "Y", "Z">>

IsDigit(b) == \E i \in DOMAIN Digits : Digits[i] = b
DigitVal(b) == (CHOOSE i \in DOMAIN Digits : Digits[i] = b) - 1
IsSpace(b) == b \in {SP, CR, LF, "\t"}

\* bytes.upper() and bytes.lower() on one byte
UpperByte(b) == IF \E i \in DOMAIN Lower : Lower[i] = b
                THEN Upper[CHOOSE i \in DOMAIN Lower : Lower[i] = b]
                ELSE b
LowerByte(b) == IF \E i \in DOMAIN Upper : Upper[i] = b
                THEN Lower[CHOOSE i \in DOMAIN Upper : Upper[i] = b]
                ELSE b
upper_asis(s) == s
upper(s) == [i \in DOMAIN s |-> UpperByte(s[i])]
lower(s) == [i \in DOMAIN s |-> LowerByte(s[i])]

\* s[i:] and s[:i] with 0-based Python indices
From(s, i) == SubSeq(s, i + 1, Len(s))
Upto(s, i) == SubSeq(s, 1, i)

startswith(s, p) == Len(p) <= Len(s) /\ SubSeq(s, 1, Len(p)) = p

\* bytes.strip(): leading and trailing ASCII whitespace removed
RECURSIVE SkipSpace(_, _, _)
SkipSpace(s, i, step) ==
    IF i >= 1 /\ i <= Len(s) /\ IsSpace(s[i]) THEN SkipSpace(s, i + step, step)
    ELSE i
strip(s) == SubSeq(s, SkipSpace(s, 1, 1), SkipSpace(s, Len(s), -1))

\* index (1-based) of the first b in s at or after position i, 0 when none
Find(s, b, i) ==
    LET idx == {j \in i .. Len(s) : s[j] = b}
    IN  IF idx = {} THEN 0 ELSE CHOOSE j \in idx : \A k \in idx : j <= k

\* int(digits) for a non-empty run of ASCII digits
RECURSIVE int(_)
int(ds) == IF ds = <<>> THEN 0
           ELSE 10 * int(Upto(ds, Len(ds) - 1)) + DigitVal(ds[Len(ds)])

\* the decimal digits of n (str(n).encode())
RECURSIVE itoa(_)
itoa(n) == IF n < 10 THEN <<Digits[n + 1]>>
           ELSE itoa(n \div 10) \o <<Digits[(n % 10) + 1]>>

(***************************************************************************)
(* ImapProxySession.parse_command                                          *)
(***************************************************************************)
\* line.strip().split(b" ", 2): at most three parts, cut at the first two
\* single spaces
split2(s) ==
    LET p == Find(s, SP, 1)
    IN  IF p = 0 THEN <<s>>
        ELSE LET q == Find(s, SP, p + 1)
             IN  IF q = 0 THEN <<Upto(s, p - 1), From(s, p)>>
                 ELSE <<Upto(s, p - 1), SubSeq(s, p + 1, q - 1), From(s, q)>>

parse_command(line) ==
    LET parts == split2(strip(line))
    IN  IF Len(parts) = 1 THEN [tag |-> parts[1], cmd |-> <<>>, rest |-> <<>>]
        ELSE IF Len(parts) = 2
             THEN [tag |-> parts[1], cmd |-> upper(parts[2]), rest |-> <<>>]
        ELSE [tag |-> parts[1], cmd |-> upper(parts[2]), rest |-> parts[3]]

\* first_line.split(b" ", 1)[0]: the tag forward_and_relay waits for
relay_tag(first_line) ==
    LET p == Find(first_line, SP, 1)
    IN  IF p = 0 THEN first_line ELSE Upto(first_line, p - 1)

\* srv.startswith(tag + b" ")
is_tagged(srv, tag) == startswith(srv, tag \o <<SP>>)

(***************************************************************************)
(* ImapProxySession.read_literal: re.search(br"\{(\d+)\}$", rest.strip())  *)
(***************************************************************************)
\* number of digits of the run of ASCII digits that ends at position e
RECURSIVE DigitRunBack(_, _)
DigitRunBack(s, e) ==
    IF e >= 1 /\ IsDigit(s[e]) THEN 1 + DigitRunBack(s, e - 1) ELSE 0

\* the matched size, or -1 when the pattern does not match
literal_size(rest) ==
    LET s == strip(rest)
        n == Len(s)
    IN  IF n >= 3 /\ s[n] = "}"
        THEN LET k == DigitRunBack(s, n - 1)
             IN  IF k >= 1 /\ n - 1 - k >= 1 /\ s[n - 1 - k] = "{"
                 THEN int(SubSeq(s, n - k, n - 1))
                 ELSE -1
        ELSE -1

(***************************************************************************)
(* Message inspection: BytesParser(policy.default) and                     *)
(* extract_meta_and_amount.  The parser is modelled for single-part        *)
(* messages without a leading "From " line, without a charset and without  *)
(* a transfer encoding: a header block of "name: value" lines (with folded *)
(* continuation lines), ended by an empty line or by the first line that   *)
(* is no header.  Of the Content-Type only the main type is read;          *)
(* multipart and message types are not modelled.                           *)
(***************************************************************************)
\* the line that starts at position i: up to and including the next LF
LineEnd(s, i) == LET p == Find(s, LF, i) IN IF p = 0 THEN Len(s) ELSE p

\* a line without its line terminator (CRLF, LF or CR)
RECURSIVE Chomp(_)
Chomp(l) == IF l # <<>> /\ l[Len(l)] \in {CR, LF}
            THEN Chomp(Upto(l, Len(l) - 1)) ELSE l

\* feedparser's headerRE: printable non-space, non-colon bytes, then a colon
IsHeaderLine(l) ==
    LET p == Find(l, ":", 1)
    IN  p > 0 /\ \A j \in 1..(p - 1) : ~IsSpace(l[j])

IsContinuationLine(l) == l # <<>> /\ l[1] \in {SP, "\t"}

\* the header block as a sequence of [name, value], and where the body starts
RECURSIVE ParseHeaders(_, _, _)
ParseHeaders(raw, i, hs) ==
    IF i > Len(raw) THEN [headers |-> hs, body |-> <<>>]
    ELSE LET e == LineEnd(raw, i)
             l == SubSeq(raw, i, e)
         IN  IF Chomp(l) = <<>>
             THEN [headers |-> hs, body |-> From(raw, e)]
             ELSE IF IsContinuationLine(l)
             THEN ParseHeaders(raw, e + 1,
                    IF hs = <<>> THEN hs
                    ELSE [hs EXCEPT ![Len(hs)].value = @ \o Chomp(l)])
             ELSE IF IsHeaderLine(l)
             THEN LET p == Find(l, ":", 1)
                  IN  ParseHeaders(raw, e + 1,
                        Append(hs, [name  |-> lower(Upto(l, p - 1)),
                                    value |-> strip(From(l, p))]))
             ELSE [headers |-> hs, body |-> From(raw, i - 1)]

parsebytes(raw) == ParseHeaders(raw, 1, <<>>)

\* msg.get(name, ""): the first header of that name, case-insensitively
get(msg, name) ==
    LET idx == {i \in DOMAIN msg.headers : msg.headers[i].name = name}
    IN  IF idx = {} THEN <<>>
        ELSE msg.headers[CHOOSE i \in idx : \A j \in idx : i <= j].value

\* msg.get_content_maintype(): what stands before the "/" of the
\* Content-Type value (up to ";"), lower-cased; text when the header is
\* missing or does not have exactly one "/"
content_maintype(msg) ==
    LET v     == get(msg, <<"c","o","n","t","e","n","t","-","t","y","p","e">>)
        semi  == Find(v, ";", 1)
        ctype == lower(strip(IF semi = 0 THEN v ELSE Upto(v, semi - 1)))
        slash == Find(ctype, "/", 1)
    IN  IF slash = 0 \/ Find(ctype, "/", slash + 1) > 0
        THEN <<"t","e","x","t">>
        ELSE Upto(ctype, slash - 1)

\* what raw_data_manager's msg.get_content() gives: a str for text, bytes
\* for audio, image, video and application, KeyError for a type it has no
\* handler for
content_kind(msg) ==
    LET m == content_maintype(msg)
    IN  IF m = <<"t","e","x","t">> THEN "str"
        ELSE IF m \in { <<"a","u","d","i","o">>, <<"i","m","a","g","e">>,
                        <<"v","i","d","e","o">>,
                        <<"a","p","p","l","i","c","a","t","i","o","n">> }
        THEN "bytes"
        ELSE "KeyError"

\* body = msg.get_content().strip(), or "" when get_content raised
get_content(msg) ==
    IF content_kind(msg) = "KeyError" THEN <<>> ELSE strip(msg.body)

\* amount_pattern.finditer(text or "") with a non-empty bytes body raises
\* TypeError, outside every try of extract_meta_and_amount
finditer_raises(raw) ==
    LET msg == parsebytes(raw)
    IN  content_kind(msg) = "bytes" /\ get_content(msg) # <<>>

(***************************************************************************)
(* amount_pattern:                                                         *)
(*   (?i)(?:amount|total|sum|subtotal|grand total)\D{0,10}(\d+[\.,]\d{2,}) *)
(***************************************************************************)
Keywords == << <<"a","m","o","u","n","t">>, <<"t","o","t","a","l">>,
               <<"s","u","m">>, <<"s","u","b","t","o","t","a","l">>,
               <<"g","r","a","n","d"," ","t","o","t","a","l">> >>
MaxGap == 10

RECURSIVE DigitRun(_, _)
DigitRun(s, i) == IF i <= Len(s) /\ IsDigit(s[i]) THEN 1 + DigitRun(s, i + 1) ELSE 0
RECURSIVE NonDigitRun(_, _)
NonDigitRun(s, i) ==
    IF i <= Len(s) /\ ~IsDigit(s[i]) THEN 1 + NonDigitRun(s, i + 1) ELSE 0

\* An amount is the decimal number n / 10^k, with no trailing zero in the
\* fraction, so that equal numbers are equal records.
RECURSIVE Normal(_)
Normal(a) == IF a.k > 0 /\ a.n % 10 = 0
             THEN Normal([n |-> a.n \div 10, k |-> a.k - 1]) ELSE a
RECURSIVE Pow10(_)
Pow10(k) == IF k = 0 THEN 1 ELSE 10 * Pow10(k - 1)
Zero == [n |-> 0, k |-> 0]
\* a >= b on floats
GE(a, b) == a.n * Pow10(b.k) >= b.n * Pow10(a.k)
max(a, b) == IF GE(b, a) /\ ~GE(a, b) THEN b ELSE a

\* float(num) for num = digits, separator replaced by ".", digits
float(ip, fp) == Normal([n |-> int(ip \o fp), k |-> Len(fp)])

\* the match of the pattern that starts with keyword kw at position i:
\* [end, amount], or end = 0 when there is none
MatchAt(s, i, kw) ==
    LET n == Len(kw)
    IN  IF i + n - 1 <= Len(s) /\ lower(SubSeq(s, i, i + n - 1)) = kw
        THEN LET g  == NonDigitRun(s, i + n)
                 d0 == i + n + g
                 d  == DigitRun(s, d0)
                 f0 == d0 + d + 1
                 f  == DigitRun(s, f0)
             IN  IF /\ g <= MaxGap
                    /\ d >= 1
                    /\ d0 + d <= Len(s)
                    /\ s[d0 + d] \in {".", ","}
                    /\ f >= 2
                 THEN [end |-> f0 + f - 1,
                       amount |-> float(SubSeq(s, d0, d0 + d - 1),
                                        SubSeq(s, f0, f0 + f - 1))]
                 ELSE [end |-> 0, amount |-> Zero]
        ELSE [end |-> 0, amount |-> Zero]

\* the first alternative of the pattern that matches at position i
FirstMatchAt(s, i) ==
    LET ks == {k \in DOMAIN Keywords : MatchAt(s, i, Keywords[k]).end > 0}
    IN  IF ks = {} THEN [end |-> 0, amount |-> Zero]
        ELSE MatchAt(s, i, Keywords[CHOOSE k \in ks : \A j \in ks : k <= j])

\* (a variant that keeps the amount of the last match)
RECURSIVE finditer_last(_, _, _)
finditer_last(s, i, amt) ==
    IF i > Len(s) THEN amt
    ELSE LET m == FirstMatchAt(s, i)
         IN  IF m.end > 0 THEN finditer_last(s, m.end + 1, m.amount)
             ELSE finditer_last(s, i + 1, amt)
\* max over amount_pattern.finditer(text), starting from amt
RECURSIVE finditer_max(_, _, _)
finditer_max(s, i, amt) ==
    IF i > Len(s) THEN amt
    ELSE LET m == FirstMatchAt(s, i)
         IN  IF m.end > 0 THEN finditer_max(s, m.end + 1, max(amt, m.amount))
             ELSE finditer_max(s, i + 1, amt)

extract_meta_and_amount(raw) ==
    LET msg     == parsebytes(raw)
        subject == get(msg, <<"s","u","b","j","e","c","t">>)
        sender  == get(msg, <<"f","r","o","m">>)
        body    == get_content(msg)
        amt     == finditer_max(body, 1, finditer_max(subject, 1, Zero))
    IN  [subject |-> subject, sender |-> sender, amount |-> amt]

(***************************************************************************)
(* Configuration (src/backend/config.py) and the policy                    *)
(***************************************************************************)
VARIABLES
    QUARANTINE_ENABLED,   \* config.QUARANTINE_ENABLED
    FILTER_MIN_AMOUNT     \* config.FILTER_MIN_AMOUNT, an amount

\* (a variant that compares with <= instead of >=)
should_quarantine_reversed(meta) ==
    IF ~QUARANTINE_ENABLED THEN FALSE
    ELSE GE(FILTER_MIN_AMOUNT, meta.amount)
\* (a variant that compares with > instead of >=)
should_quarantine_strict(meta) ==
    IF ~QUARANTINE_ENABLED THEN FALSE
    ELSE GE(meta.amount, FILTER_MIN_AMOUNT) /\ ~GE(FILTER_MIN_AMOUNT, meta.amount)
\* meta.amount >= float(FILTER_MIN_AMOUNT)
should_quarantine(meta) ==
    IF ~QUARANTINE_ENABLED THEN FALSE
    ELSE GE(meta.amount, FILTER_MIN_AMOUNT)

(***************************************************************************)
(* The session and its environment                                         *)
(***************************************************************************)
VARIABLES
    pc,            \* where ImapProxySession.handle stands
    alive,         \* self.alive
    server_writer, \* TRUE once connect_upstream has set self.server_writer
    relay,         \* the tag the relay loop waits for
    client_in,     \* every byte the client has written to the proxy
    cpos,          \* how many of them client_reader has consumed
    client_eof,    \* the client has closed its connection
    client_out,    \* what the session wrote to client_writer, call by call
    server_out,    \* what the session wrote to server_writer, call by call
    server_in,     \* lines upstream has sent that server_reader has not read
    upstream_eof,  \* upstream has closed its connection
    up,            \* the upstream server's state (environment)
    quarantine_store,
    closed,        \* which writers handle's finally block has closed
    error,         \* the exception handle caught, or "none"
    log,           \* history: one record per client line the loop has read
    eof_seen,      \* history: the number of lines the loop had read when
                   \* server_reader first returned EOF, or -1
    issued,        \* history: one record per command the client has sent
    response,      \* the answer of the latest call of the REST API
    listing        \* the size of quarantine_store when a listing under way began

\* the accounts endpoints
VARIABLES
    accounts_store,
    account_ids    \* how many identifiers uuid4 has given to create_account

\* main_async
VARIABLES
    main_pc,       \* where main_async stands
    servers,       \* the list servers
    sessions,      \* one record per connection imap_client_handler was called for
    tls_error      \* the call whose exception the except clause caught, or "none"

\* the batch tool: EmailFilterApp (src/main.py)
VARIABLES
    tool_pc,          \* where EmailFilterApp.run stands
    email_ids,        \* the list get_unread_emails returned
    cur,              \* the index in email_ids of the email at hand
    atts,             \* how many of its attachments are still to be processed
    processed_count,  \* self.processed_count
    failed_count,     \* self.failed_count
    calls,            \* history: the calls made and the counters incremented
    result            \* what run returns: "none" before its return statement

config == <<QUARANTINE_ENABLED, FILTER_MIN_AMOUNT>>
session == <<pc, alive, server_writer, relay, closed, error, log, eof_seen>>
client == <<client_in, client_eof, issued>>
api == <<response, listing>>
accounts == <<accounts_store, account_ids>>
startup == <<main_pc, servers, sessions, tls_error>>
tool == <<tool_pc, email_ids, cur, atts, processed_count, failed_count, calls,
          result>>
\* what neither a session nor the quarantine endpoints touch
others == <<accounts, startup, tool>>
vars == <<config, session, client, api, others, cpos, client_out, server_out,
          server_in, upstream_eof, up, quarantine_store>>

(***************************************************************************)
(* base64.b64encode                                                        *)
(***************************************************************************)
\* the printable ASCII bytes 32..95 and 97..126 (a string cannot hold a
\* backquote, byte 96, which no input of the model contains)
Printable == <<" ", "!", "\"", "#", "$", "%", "&", "'", "(", ")", "*", "+",
               ",", "-", ".", "/", "0", "1", "2", "3", "4", "5", "6", "7",
               "8", "9", ":", ";", "<", "=", ">", "?", "@", "A", "B", "C",
               "D", "E", "F", "G", "H", "I", "J", "K", "L", "M", "N", "O",
               "P", "Q", "R", "S", "T", "U", "V", "W", "X", "Y", "Z", "[",
               "\\", "]", "^", "_">>
PrintableHigh == <<"a", "b", "c", "d", "e", "f", "g", "h", "i", "j", "k",
                   "l", "m", "n", "o", "p", "q", "r", "s", "t", "u", "v",
                   "w", "x", "y", "z", "{", "|", "}", "~">>
B64 == <<"A", "B", "C", "D", "E", "F", "G", "H", "I", "J", "K", "L", "M",
         "N", "O", "P", "Q", "R", "S", "T", "U", "V", "W", "X", "Y", "Z",
         "a", "b", "c", "d", "e", "f", "g", "h", "i", "j", "k", "l", "m",
         "n", "o", "p", "q", "r", "s", "t", "u", "v", "w", "x", "y", "z",
         "0", "1", "2", "3", "4", "5", "6", "7", "8", "9", "+", "/">>

\* the byte's value
OrdOf(b) ==
    IF b = CR THEN 13 ELSE IF b = LF THEN 10 ELSE IF b = "\t" THEN 9
    ELSE IF \E i \in DOMAIN Printable : Printable[i] = b
    THEN 31 + CHOOSE i \in DOMAIN Printable : Printable[i] = b
    ELSE 96 + CHOOSE i \in DOMAIN PrintableHigh : PrintableHigh[i] = b
OrdTable == [b \in {CR, LF, "\t"} \cup {Printable[i] : i \in DOMAIN Printable}
                    \cup {PrintableHigh[i] : i \in DOMAIN PrintableHigh} |-> OrdOf(b)]
Ord(b) == OrdTable[b]

RECURSIVE b64encode(_)
b64encode(s) ==
    IF s = <<>> THEN <<>>
    ELSE LET a == Ord(s[1])
             b == IF Len(s) >= 2 THEN Ord(s[2]) ELSE 0
             c == IF Len(s) >= 3 THEN Ord(s[3]) ELSE 0
             q == << B64[(a \div 4) + 1],
                     B64[(a % 4) * 16 + (b \div 16) + 1],
                     IF Len(s) >= 2 THEN B64[(b % 16) * 4 + (c \div 64) + 1] ELSE "=",
                     IF Len(s) >= 3 THEN B64[(c % 64) + 1] ELSE "=" >>
         IN  q \o b64encode(From(s, 3))

\* base64.b64decode of a padded encoding
B64Index == [ch \in {B64[i] : i \in DOMAIN B64} |->
                (CHOOSE i \in DOMAIN B64 : B64[i] = ch) - 1]
B64Val(ch) == B64Index[ch]
Chr(v) == IF v = 13 THEN CR ELSE IF v = 10 THEN LF ELSE IF v = 9 THEN "\t"
          ELSE IF v <= 95 THEN Printable[v - 31] ELSE PrintableHigh[v - 96]
RECURSIVE b64decode(_)
b64decode(e) ==
    IF Len(e) < 4 THEN <<>>
    ELSE LET a == B64Val(e[1])
             b == B64Val(e[2])
             c == IF e[3] = "=" THEN 0 ELSE B64Val(e[3])
             d == IF e[4] = "=" THEN 0 ELSE B64Val(e[4])
             x == <<Chr(a * 4 + (b \div 16))>>
             y == IF e[3] = "=" THEN <<>> ELSE <<Chr((b % 16) * 16 + (c \div 4))>>
             z == IF e[4] = "=" THEN <<>> ELSE <<Chr((c % 4) * 64 + d)>>
         IN  x \o y \o z \o b64decode(From(e, 4))

(***************************************************************************)
(* Bounds and inputs of the model                                          *)
(***************************************************************************)
\* how many commands the client sends in one session
MaxCmds == 2

APPEND == <<"A", "P", "P", "E", "N", "D">>
FETCH == <<"F", "E", "T", "C", "H">>
LOGOUT == <<"L", "O", "G", "O", "U", "T">>

\* the messages the client uploads
MsgLow == <<"s", "u", "m", " ", "9", ".", "5", "0">>
MsgHigh == <<"S", "u", "b", "j", "e", "c", "t", ":", " ", "s", "u", "m", " ",
             "2", "5", ".", "0", "0", "\r", "\n", "\r", "\n", "x">>
Messages == {MsgLow, MsgHigh}

\* the messages whose inspection is looked at: an empty one, an image, one
\* of a type without a content handler, a total in words, a total with a
\* thousands separator, and one with a larger and then a smaller amount
MsgEmpty == <<>>
MsgImage == <<"C", "o", "n", "t", "e", "n", "t", "-", "T", "y", "p", "e",
              ":", " ", "i", "m", "a", "g", "e", "/", "x", "\r", "\n", "\r",
              "\n", "x">>
MsgOther == <<"C", "o", "n", "t", "e", "n", "t", "-", "T", "y", "p", "e",
              ":", " ", "a", "/", "b", "\r", "\n", "\r", "\n", "s", "u", "m",
              " ", "3", "0", ".", "0", "0">>
MsgWords == <<"\r", "\n", "T", "o", "t", "a", "l", ":", " ", "t", "w", "e",
              "l", "v", "e">>
MsgThousands == <<"\r", "\n", "T", "o", "t", "a", "l", ":", " ", "1", "2",
                  ",", "3", "4", "5", ".", "6", "7">>
MsgTwo == <<"S", "u", "b", "j", "e", "c", "t", ":", " ", "s", "u", "m", " ",
            "3", "0", ".", "0", "0", "\r", "\n", "\r", "\n", "s", "u", "m",
            " ", "9", ",", "5", "0">>
SampleMessages == {MsgEmpty, MsgImage, MsgOther, MsgWords, MsgThousands, MsgTwo}

\* how many commands the client sends in a session that uploads them
MaxAppends == 1
MaxLines == 1

\* the values FILTER_MIN_AMOUNT takes with them: 25.00 and 1000.00
SampleThresholds == {[n |-> 25, k |-> 0], [n |-> 1000, k |-> 0]}

\* the values FILTER_MIN_AMOUNT takes: 9.50 and 25.00
Thresholds == {[n |-> 95, k |-> 1], [n |-> 25, k |-> 0]}
\* with quarantine disabled the threshold is not read: one value stands for all
DefaultThreshold == [n |-> 25, k |-> 0]

\* the tag of the client's k-th command: a1, a2, ...
Tag(k) == <<"a">> \o itoa(k)

\* what the client sends: the command line, and the literal when it has one
ClientKinds == {"noop", "fetch", "logout", "append_sync", "append_wait",
                "append_nonsync", "login_wait"}
\* what the client sends when it uploads the sample messages, or sends an
\* APPEND line without a literal or with a length that is no number
SampleKinds == {"append_sample", "append_noliteral", "append_malformed"}
\* lines that try the command parser: the verb in lower and mixed case, a
\* line of one token, an empty line, whitespace before the tag and before
\* the line terminator; and an APPEND of which the client sends CutShort
\* bytes less than the line announces
ParseKinds == {"noop", "append_sync", "append_lower", "append_mixed", "bare",
               "empty", "leading", "trailing", "append_cut"}
CutShort == 3
HasLiteral(kind) == kind \in {"append_sync", "append_wait", "append_nonsync",
                              "login_wait", "append_sample", "append_lower",
                              "append_mixed", "append_cut"}
\* the client waits for the continuation before it sends the literal
Waits(kind) == kind \in {"append_wait", "login_wait"}

CommandLine(t, kind, m) ==
    IF kind = "bare" THEN t \o CRLF
    ELSE IF kind = "empty" THEN CRLF
    ELSE IF kind = "leading" THEN <<SP>> \o t \o <<" ", "N", "O", "O", "P",
                                                   "\r", "\n">>
    ELSE
    t \o <<SP>> \o
    ( CASE kind = "noop"   -> <<"N", "O", "O", "P">>
        [] kind = "trailing" -> <<"L", "O", "G", "I", "N", " ", "u", " ",
                                  "p", " ">>
        [] kind = "append_lower" ->
               <<"a", "p", "p", "e", "n", "d", " ", "m", " ", "{">> \o itoa(Len(m)) \o <<"}">>
        [] kind = "append_mixed" ->
               <<"A", "p", "p", "e", "n", "d", " ", "m", " ", "{">> \o itoa(Len(m)) \o <<"}">>
        [] kind = "append_cut" ->
               <<"A", "P", "P", "E", "N", "D", " ", "m", " ", "{">> \o itoa(Len(m) + CutShort) \o <<"}">>
        [] kind = "fetch"  -> <<"f", "e", "t", "c", "h", " ", "1">>
        [] kind = "logout" -> <<"L", "O", "G", "O", "U", "T">>
        [] kind = "append_noliteral" -> <<"A", "P", "P", "E", "N", "D", " ",
                                          "m">>
        [] kind = "append_malformed" -> <<"A", "P", "P", "E", "N", "D", " ",
                                          "m", " ", "{", "x", "}">>
        [] kind \in {"append_sync", "append_wait", "append_sample"} ->
               <<"A", "P", "P", "E", "N", "D", " ", "m", " ", "{">> \o itoa(Len(m)) \o <<"}">>
        [] kind = "append_nonsync" ->
               <<"A", "P", "P", "E", "N", "D", " ", "m", " ", "{">> \o itoa(Len(m)) \o <<"+",
                                                                                         "}">>
        [] kind = "login_wait" ->
               <<"L", "O", "G", "I", "N", " ", "u", " ", "{">> \o itoa(Len(m)) \o <<"}">> )
    \o CRLF

Password == <<"p", "w">>
LiteralsOf(kind) ==
    CASE kind = "login_wait" -> {Password}
      [] kind = "append_sync" -> Messages
      [] kind = "append_sample" -> SampleMessages
      [] kind \in {"append_wait", "append_nonsync", "append_lower"} -> {MsgLow}
      [] kind \in {"append_mixed", "append_cut"} -> {MsgHigh}
      [] OTHER -> {<<>>}

(***************************************************************************)
(* Streams                                                                 *)
(***************************************************************************)
RECURSIVE Flat(_)
Flat(chunks) == IF chunks = <<>> THEN <<>>
                ELSE Flat(Upto(chunks, Len(chunks) - 1)) \o chunks[Len(chunks)].data

\* StreamReader.readline() on the bytes after position pos: the bytes up to
\* and including the next LF; at EOF whatever is left (possibly nothing)
CanReadLine(buf, pos, eof) == Find(buf, LF, pos + 1) > 0 \/ eof
ReadLine(buf, pos) == SubSeq(buf, pos + 1, LineEnd(buf, pos + 1))

\* StreamWriter.write + drain: once the peer has closed, the call either
\* still returns or raises (ConnectionResetError, BrokenPipeError)
SendOutcomes(peer_closed) == IF peer_closed THEN {"ok", "raise"} ELSE {"ok"}

\* (a variant that answers with an untagged line)
HeldOk_untagged(tag) == <<"*", " ", "O", "K", " ", "A", "P", "P", "E", "N",
                          "D", " ", "c", "o", "m", "p", "l", "e", "t", "e",
                          "d", " ", "(", "h", "e", "l", "d", " ", "b", "y",
                          " ", "p", "r", "o", "x", "y", ")", "\r", "\n">>
\* (a variant with the plain completion text)
HeldOk_plain(tag) == tag \o <<" ", "O", "K", " ", "A", "P", "P", "E", "N",
                              "D", " ", "c", "o", "m", "p", "l", "e", "t",
                              "e", "d", "\r", "\n">>
\* b"%b OK APPEND completed (held by proxy)\r\n" % tag
HeldOk(tag) == tag \o <<" ", "O", "K", " ", "A", "P", "P", "E", "N", "D",
                        " ", "c", "o", "m", "p", "l", "e", "t", "e", "d",
                        " ", "(", "h", "e", "l", "d", " ", "b", "y", " ",
                        "p", "r", "o", "x", "y", ")", "\r", "\n">>

\* (a variant that gives the same identifier again)
uuid4_reused == "1"
\* str(uuid.uuid4()): an identifier not in the store
uuid4 == ToString(Cardinality(DOMAIN quarantine_store) + 1)

Cur == log[Len(log)]

\* no listing of the store is under way
NoListing == -1

\* the metadata of a command whose message has not been inspected
NoMeta == [subject |-> <<>>, sender |-> <<>>, amount |-> Zero]

(***************************************************************************)
(* Initial state: the session object right after __init__, a configuration *)
(***************************************************************************)
\* accounts_store = {} (main.py 54)
InitAccounts ==
    /\ accounts_store = <<>>
    /\ account_ids = 0

\* main_async has not run yet
InitStartup ==
    /\ main_pc = "start_plain"
    /\ servers = <<>>
    /\ sessions = <<>>
    /\ tls_error = "none"

\* EmailFilterApp.__init__
InitTool ==
    /\ tool_pc = "connect"
    /\ email_ids = <<>>
    /\ cur = 0
    /\ atts = 0
    /\ processed_count = 0
    /\ failed_count = 0
    /\ calls = <<>>
    /\ result = "none"

InitOthers == InitAccounts /\ InitStartup /\ InitTool

InitSession ==
    /\ InitOthers
    /\ pc = "connect_upstream"
    /\ alive = TRUE
    /\ server_writer = FALSE
    /\ relay = <<>>
    /\ client_in = <<>>
    /\ cpos = 0
    /\ client_eof = FALSE
    /\ client_out = <<>>
    /\ server_out = <<>>
    /\ server_in = <<>>
    /\ upstream_eof = FALSE
    /\ up = [pos |-> 0, mode |-> "line", need |-> 0, tag |-> <<>>, cmd |-> <<>>]
    /\ quarantine_store = <<>>
    /\ closed = [server |-> FALSE, client |-> FALSE, server_error |-> FALSE]
    /\ response = [status_code |-> 0]
    /\ listing = NoListing
    /\ error = "none"
    /\ log = <<>>
    /\ eof_seen = -1
    /\ issued = <<>>

Init ==
    /\ QUARANTINE_ENABLED \in BOOLEAN
    /\ FILTER_MIN_AMOUNT \in Thresholds
    /\ QUARANTINE_ENABLED \/ FILTER_MIN_AMOUNT = DefaultThreshold
    /\ InitSession

(***************************************************************************)
(* ImapProxySession                                                        *)
(***************************************************************************)
\* (a variant in which the loop is entered although the call raised)
Raise_ignored(e) == pc' = "loop" /\ error' = e
\* an exception propagates to the except clause of handle
Raise(e) == pc' = "finally" /\ error' = e

\* send_to_server(data), recorded with the command it was written for
send_to_server(data, kind, n) ==
    server_out' = Append(server_out, [data |-> data, kind |-> kind, n |-> n])

\* send_to_client(data); src tells a relayed upstream line from a line the
\* session makes up
send_to_client(data, src) ==
    client_out' = Append(client_out, [data |-> data, src |-> src, n |-> Len(log)])

Greeting == <<"*", " ", "O", "K", " ", "r", "e", "a", "d", "y", "\r", "\n">>

\* (a variant that takes the newest line of the buffer)
readline_newest(buf) == buf[Len(buf)]
\* server_reader.readline() on a buffer that holds a line: the oldest line
readline(buf) == Head(buf)

\* (a variant that leaves the flag alone)
alive_kept(cmd, a) == a
\* self.alive once forward_and_relay has returned: False after LOGOUT
alive_after(cmd, a) == IF cmd = LOGOUT THEN FALSE ELSE a

\* connect_upstream: asyncio.open_connection returns or raises
connect_upstream ==
    /\ pc = "connect_upstream"
    /\ \/ /\ server_writer' = TRUE
          /\ pc' = "relay_server_greeting"
          /\ \/ server_in' = <<Greeting>> /\ UNCHANGED upstream_eof
             \/ upstream_eof' = TRUE /\ UNCHANGED server_in
          /\ UNCHANGED error
       \/ /\ Raise("OSError")
          /\ UNCHANGED <<server_writer, server_in, upstream_eof>>
    /\ UNCHANGED <<config, api, others, alive, relay, closed, log, eof_seen, client, cpos,
                   client_out, server_out, up, quarantine_store>>

relay_server_greeting ==
    /\ pc = "relay_server_greeting"
    /\ server_in # <<>> \/ upstream_eof
    /\ IF server_in # <<>>
       THEN /\ server_in' = Tail(server_in)
            /\ \E o \in SendOutcomes(client_eof) :
                 /\ send_to_client(readline(server_in), "upstream")
                 /\ IF o = "raise" THEN Raise("ConnectionError")
                    ELSE pc' = "loop" /\ UNCHANGED error
            /\ UNCHANGED eof_seen
       ELSE /\ pc' = "loop"
            /\ eof_seen' = Len(log)
            /\ UNCHANGED <<server_in, client_out, error>>
    /\ UNCHANGED <<config, api, others, alive, server_writer, relay, closed, log, client, cpos,
                   server_out, upstream_eof, up, quarantine_store>>

\* the line handle forwards for a command that is not APPEND
first_line(line, c) ==
    IF c.cmd = FETCH THEN c.tag \o <<" ", "F", "E", "T", "C", "H", " ">> \o c.rest \o CRLF ELSE line

\* one iteration of the main loop of handle, up to the first await of the
\* handler it dispatches to
handle ==
    /\ pc = "loop"
    /\ IF ~alive
       THEN /\ pc' = "finally"
            /\ UNCHANGED <<cpos, log, server_out, relay, error>>
       ELSE /\ CanReadLine(client_in, cpos, client_eof)
            /\ LET line == ReadLine(client_in, cpos)
                   c    == parse_command(line)
               IN  /\ cpos' = cpos + Len(line)
                   /\ IF line = <<>>
                      THEN /\ pc' = "finally"
                           /\ UNCHANGED <<log, server_out, relay, error>>
                      ELSE /\ log' = Append(log,
                                  [line |-> line, at |-> cpos, tag |-> c.tag,
                                   cmd |-> c.cmd, rest |-> c.rest, size |-> -1,
                                   literal |-> <<>>, meta |-> NoMeta,
                                   decision |-> "none",
                                   up_before |-> Len(server_out)])
                           /\ IF c.cmd = APPEND
                              THEN /\ pc' = "handle_append"
                                   /\ UNCHANGED <<server_out, relay, error>>
                              ELSE /\ relay' = relay_tag(first_line(line, c))
                                   /\ send_to_server(first_line(line, c), "line", Len(log) + 1)
                                   /\ \E o \in SendOutcomes(upstream_eof) :
                                        IF o = "raise" THEN Raise("ConnectionError")
                                        ELSE pc' = "forward_and_relay" /\ UNCHANGED error
    /\ UNCHANGED <<config, api, others, alive, server_writer, closed, eof_seen, client,
                   client_out, server_in, upstream_eof, up, quarantine_store>>

\* one iteration of the relay loop of forward_and_relay / relay_until_tag
RelayStep(here) ==
    /\ pc = here
    /\ server_in # <<>> \/ upstream_eof
    /\ IF server_in = <<>>
       THEN /\ pc' = "loop"
            /\ alive' = alive_after(Cur.cmd, alive)
            /\ eof_seen' = IF eof_seen < 0 THEN Len(log) ELSE eof_seen
            /\ UNCHANGED <<server_in, client_out, error>>
       ELSE LET srv == readline(server_in)
            IN  /\ server_in' = Tail(server_in)
                /\ UNCHANGED eof_seen
                /\ send_to_client(srv, "upstream")
                /\ \E o \in SendOutcomes(client_eof) :
                     IF o = "raise" THEN Raise("ConnectionError") /\ UNCHANGED alive
                     ELSE IF is_tagged(srv, relay)
                     THEN /\ pc' = "loop"
                          /\ alive' = alive_after(Cur.cmd, alive)
                          /\ UNCHANGED error
                     ELSE UNCHANGED <<pc, alive, error>>
    /\ UNCHANGED <<config, api, others, server_writer, relay, closed, log, client, cpos,
                   server_out, upstream_eof, up, quarantine_store>>

forward_and_relay == RelayStep("forward_and_relay")

relay_until_tag == RelayStep("relay_until_tag")

\* read_literal: the size the pattern finds, and how many bytes are read
read_size(rest) == literal_size(rest)
\* (a variant that forgets the CRLF after the literal)
read_count_no_crlf(size) == size
read_count(size) == size + 2
\* literal[:-2]
raw_of(literal) == Upto(literal, Len(literal) - 2)
\* (a variant that answers every literal, {N} or {N+}, with a continuation)
continuation_any(rest) ==
    LET s == strip(rest)
    IN  IF s # <<>> /\ s[Len(s)] = "}"
        THEN <<<<"+", " ", "R", "e", "a", "d", "y", " ", "f", "o", "r", " ",
                 "l", "i", "t", "e", "r", "a", "l", " ", "d", "a", "t", "a",
                 "\r", "\n">>>>
        ELSE <<>>
\* what read_literal writes to the client before it reads the literal
continuation(rest) == <<>>

\* (a variant that holds only while the store is empty)
hold_path_once(meta) == should_quarantine(meta) /\ DOMAIN quarantine_store = {}
\* the if / else of handle_append: which of the two paths run
hold_path(meta) == should_quarantine(meta)
\* (a variant whose forwarding is not under the else)
deliver_always(meta) == TRUE
deliver_path(meta) == ~should_quarantine(meta)

\* the record handle_append stores
held_record(meta, raw_msg) ==
    [meta |-> meta, content |-> b64encode(raw_msg), status |-> "held"]

\* handle_append up to its first send upstream: read_literal, inspection,
\* policy, and the hold path
handle_append ==
    /\ pc = "handle_append"
    /\ LET size  == read_size(Cur.rest)
           count == IF size < 0 THEN 0 ELSE read_count(size)
           cont  == [i \in DOMAIN continuation(Cur.rest) |->
                       [data |-> continuation(Cur.rest)[i], src |-> "proxy",
                        n |-> Len(log)]]
       IN  /\ size < 0 \/ Len(client_in) - cpos >= count \/ client_eof
           /\ IF size >= 0 /\ Len(client_in) - cpos < count
              THEN \* readexactly raises IncompleteReadError
                   /\ cpos' = Len(client_in)
                   /\ Raise("IncompleteReadError")
                   /\ log' = [log EXCEPT ![Len(log)].size = size]
                   /\ client_out' = client_out \o cont
                   /\ UNCHANGED <<server_out, quarantine_store, relay>>
              ELSE LET literal == IF size < 0 THEN <<>>
                                  ELSE SubSeq(client_in, cpos + 1, cpos + count)
                       raw_msg == IF size < 0 THEN <<>> ELSE raw_of(literal)
                       meta    == extract_meta_and_amount(raw_msg)
                       hold    == hold_path(meta)
                       deliver == deliver_path(meta)
                       first   == Cur.tag \o <<" ", "A", "P", "P", "E", "N",
                                               "D", " ">> \o Cur.rest \o CRLF
                   IN  IF finditer_raises(raw_msg)
                       THEN \* extract_meta_and_amount raises TypeError
                            /\ cpos' = cpos + count
                            /\ Raise("TypeError")
                            /\ log' = [log EXCEPT ![Len(log)].size = size,
                                                  ![Len(log)].literal = raw_msg]
                            /\ client_out' = client_out \o cont
                            /\ UNCHANGED <<server_out, quarantine_store, relay>>
                       ELSE /\ cpos' = cpos + count
                            /\ log' = [log EXCEPT ![Len(log)].size = size,
                                                  ![Len(log)].literal = raw_msg,
                                                  ![Len(log)].meta = meta,
                                                  ![Len(log)].decision =
                                                      IF hold THEN "hold" ELSE "deliver"]
                            /\ quarantine_store' =
                                 IF hold
                                 THEN (uuid4 :> held_record(meta, raw_msg)) @@ quarantine_store
                                 ELSE quarantine_store
                            /\ client_out' =
                                 IF hold
                                 THEN client_out \o cont \o
                                      <<[data |-> HeldOk(Cur.tag), src |-> "proxy",
                                         n |-> Len(log)]>>
                                 ELSE client_out \o cont
                            /\ server_out' =
                                 IF deliver
                                 THEN Append(server_out,
                                        [data |-> first, kind |-> "first", n |-> Len(log)])
                                 ELSE server_out
                            /\ relay' = IF deliver THEN Cur.tag ELSE relay
                            /\ \E o \in SendOutcomes((hold /\ client_eof)
                                                     \/ (deliver /\ upstream_eof)) :
                                 IF o = "raise" THEN Raise("ConnectionError")
                                 ELSE /\ pc' = IF deliver THEN "handle_append_body"
                                               ELSE "loop"
                                      /\ UNCHANGED error
    /\ UNCHANGED <<config, api, others, alive, server_writer, closed, eof_seen, client,
                   server_in, upstream_eof, up>>

\* the deliver path of handle_append: the second send
handle_append_body ==
    /\ pc = "handle_append_body"
    /\ send_to_server(Cur.literal \o CRLF, "body", Len(log))
    /\ \E o \in SendOutcomes(upstream_eof) :
         IF o = "raise" THEN Raise("ConnectionError")
         ELSE pc' = "relay_until_tag" /\ UNCHANGED error
    /\ UNCHANGED <<config, api, others, alive, server_writer, relay, closed, log, eof_seen,
                   client, cpos, client_out, server_in, upstream_eof, up,
                   quarantine_store>>

\* close() + wait_closed() of a writer: returns or raises
CloseOutcomes(writer) == IF writer THEN {"ok", "raise"} ELSE {"ok"}
\* (a variant without suppress: a failed close ends the finally block)
suppress_nothing(failed) == ~failed
\* contextlib.suppress(Exception): the statements after the with block run
\* whether or not the block failed
suppress(failed) == TRUE

\* the finally block of handle
handle_finally ==
    /\ pc = "finally"
    /\ \E s \in CloseOutcomes(server_writer) :
         closed' = [server |-> server_writer,
                    client |-> suppress(s = "raise"),
                    server_error |-> (s = "raise")]
    /\ pc' = "closed"
    /\ UNCHANGED <<config, api, others, alive, server_writer, relay, error, log, eof_seen,
                   client, cpos, client_out, server_out, server_in, upstream_eof,
                   up, quarantine_store>>


(***************************************************************************)
(* Environment: the mail client                                            *)
(***************************************************************************)
\* the client's last command still lacks its literal
LiteralPending == issued # <<>> /\ ~issued[Len(issued)].sent

\* every command the client has sent has had its tagged response
AllAnswered ==
    \A i \in DOMAIN issued :
        \E j \in DOMAIN client_out : is_tagged(client_out[j].data, issued[i].tag)

\* the session is blocked in a read from the client
SessionWaitsForClient ==
    \/ pc = "loop" /\ alive /\ Find(client_in, LF, cpos + 1) = 0
    \/ /\ pc = "handle_append"
       /\ read_size(Cur.rest) >= 0
       /\ Len(client_in) - cpos < read_count(read_size(Cur.rest))

\* the session is blocked in a read from upstream
SessionWaitsForUpstream ==
    /\ pc \in {"relay_server_greeting", "forward_and_relay", "relay_until_tag"}
    /\ server_in = <<>>

\* The client sends its next command: the command line and, unless it waits
\* for the continuation, the literal and the CRLF that ends the command.  It
\* either pipelines its commands before the session has read any of them, or
\* sends the next one when the session waits for it.  A client that waits
\* for continuations does not pipeline.
Send(kinds, limit) ==
    /\ pc # "closed"
    /\ ~client_eof
    /\ Len(issued) < limit
    /\ ~LiteralPending
    /\ cpos = 0 \/ (SessionWaitsForClient /\ cpos = Len(client_in))
    /\ \E kind \in kinds : \E m \in LiteralsOf(kind) :
         LET t == Tag(Len(issued) + 1)
         IN  /\ Waits(kind) => AllAnswered
             /\ client_in' = client_in \o CommandLine(t, kind, m)
                   \o (IF HasLiteral(kind) /\ ~Waits(kind) THEN m \o CRLF ELSE <<>>)
             /\ issued' = Append(issued,
                   [tag |-> t, kind |-> kind, literal |-> m,
                    at |-> Len(client_in), seen |-> Len(client_out),
                    sent |-> ~Waits(kind)])
    /\ UNCHANGED <<config, api, others, session, client_eof, cpos, client_out, server_out,
                   server_in, upstream_eof, up, quarantine_store>>

ClientSend == Send(ClientKinds, MaxCmds)

\* a continuation line has reached the client since it sent its command
ContinuationSeen ==
    \E j \in DOMAIN client_out :
        /\ j > issued[Len(issued)].seen
        /\ startswith(client_out[j].data, <<"+">>)

ClientSendLiteral ==
    /\ pc # "closed"
    /\ ~client_eof
    /\ LiteralPending
    /\ ContinuationSeen
    /\ client_in' = client_in \o issued[Len(issued)].literal \o CRLF
    /\ issued' = [issued EXCEPT ![Len(issued)].sent = TRUE]
    /\ UNCHANGED <<config, api, others, session, client_eof, cpos, client_out, server_out,
                   server_in, upstream_eof, up, quarantine_store>>

\* The client closes its connection: right after its last command, or when
\* the session waits for it, or when the session waits for upstream.
ClientClose ==
    /\ pc # "closed"
    /\ ~client_eof
    /\ \/ issued # <<>> /\ cpos <= issued[Len(issued)].at
       \/ SessionWaitsForClient
       \/ SessionWaitsForUpstream
    /\ client_eof' = TRUE
    /\ UNCHANGED <<config, api, others, session, client_in, issued, cpos, client_out,
                   server_out, server_in, upstream_eof, up, quarantine_store>>

(***************************************************************************)
(* Environment: the upstream IMAP server.  It reads command lines, asks    *)
(* for a synchronizing literal with a continuation line, reads N literal   *)
(* bytes and then the rest of the command line, and answers each command   *)
(* with optional untagged lines and one tagged line.                       *)
(***************************************************************************)
\* the literal announced at the end of a command line: {N} or {N+}
imap_literal(line) ==
    LET s == strip(line)
        n == Len(s)
        plus == n >= 2 /\ s[n] = "}" /\ s[n - 1] = "+"
        t == IF plus THEN Upto(s, n - 2) \o <<"}">> ELSE s
    IN  [size |-> literal_size(t), sync |-> ~plus]

\* the server's answer to a complete command: untagged lines, then the
\* tagged completion
Answer(tag, cmd) ==
    IF tag = <<>> THEN <<<<"*", " ", "B", "A", "D", "\r", "\n">>>>
    ELSE IF cmd = <<>> THEN <<tag \o <<" ", "B", "A", "D", "\r", "\n">>>>
    ELSE IF cmd = LOGOUT THEN <<<<"*", " ", "B", "Y", "E", "\r", "\n">>, tag \o <<" ",
                                                                                  "O",
                                                                                  "K",
                                                                                  "\r",
                                                                                  "\n">>>>
    ELSE IF cmd = FETCH THEN <<<<"*", " ", "1", " ", "F", "E", "T", "C", "H",
                                 "\r", "\n">>, tag \o <<" ", "O", "K", "\r",
                                                        "\n">>>>
    ELSE <<tag \o <<" ", "O", "K", "\r", "\n">>>>

Continuation == <<"+", " ", "g", "o", "\r", "\n">>

UpstreamLine ==
    /\ server_writer /\ ~upstream_eof /\ pc # "closed"
    /\ up.mode \in {"line", "tail"}
    /\ LET buf == Flat(server_out)
       IN  /\ Find(buf, LF, up.pos + 1) > 0
           /\ LET line == ReadLine(buf, up.pos)
                  c    == parse_command(line)
                  lit  == imap_literal(line)
                  tag  == IF up.mode = "line" THEN c.tag ELSE up.tag
                  cmd  == IF up.mode = "line" THEN c.cmd ELSE up.cmd
              IN  IF lit.size >= 0
                  THEN /\ up' = [pos |-> up.pos + Len(line), mode |-> "literal",
                                 need |-> lit.size, tag |-> tag, cmd |-> cmd]
                       /\ server_in' = IF lit.sync THEN Append(server_in, Continuation)
                                       ELSE server_in
                       /\ UNCHANGED upstream_eof
                  ELSE /\ up' = [pos |-> up.pos + Len(line), mode |-> "line",
                                 need |-> 0, tag |-> <<>>, cmd |-> <<>>]
                       /\ server_in' = server_in \o Answer(tag, cmd)
                       /\ upstream_eof' = (cmd = LOGOUT)
    /\ UNCHANGED <<config, api, others, session, client, cpos, client_out, server_out,
                   quarantine_store>>

UpstreamLiteral ==
    /\ server_writer /\ ~upstream_eof /\ pc # "closed"
    /\ up.mode = "literal"
    /\ Len(Flat(server_out)) - up.pos >= up.need
    /\ up' = [up EXCEPT !.pos = @ + up.need, !.mode = "tail", !.need = 0]
    /\ UNCHANGED <<config, api, others, session, client, cpos, client_out, server_out,
                   server_in, upstream_eof, quarantine_store>>

\* Upstream closes its connection: while the session waits for it or for
\* the client, or between the two sends of a delivered APPEND.
UpstreamClose ==
    /\ server_writer /\ ~upstream_eof /\ pc # "closed"
    /\ \/ SessionWaitsForUpstream
       \/ SessionWaitsForClient
       \/ pc = "handle_append_body"
    /\ upstream_eof' = TRUE
    /\ UNCHANGED <<config, api, others, session, client, cpos, client_out, server_out,
                   server_in, up, quarantine_store>>

Next ==
    \/ connect_upstream
    \/ relay_server_greeting
    \/ handle
    \/ forward_and_relay
    \/ relay_until_tag
    \/ handle_append
    \/ handle_append_body
    \/ handle_finally
    \/ ClientSend
    \/ ClientSendLiteral
    \/ ClientClose
    \/ UpstreamLine
    \/ UpstreamLiteral
    \/ UpstreamClose

(***************************************************************************)
(* The quarantine API (FastAPI handlers over quarantine_store)             *)
(***************************************************************************)
\* the identifiers a caller asks for: those uuid4 can have given, in the
\* store or not
Ids == {ToString(i) : i \in 1 .. MaxCmds}

\* raise HTTPException(status_code=404, detail="Email not found")
HTTPException == [status_code |-> 404, detail |-> "Email not found"]

\* {"id": email_id, **quarantine_store[email_id]}
with_id(email_id, data) ==
    [id |-> email_id, meta |-> data.meta, content |-> data.content,
     status |-> data.status]

UnchangedByApi ==
    UNCHANGED <<config, others, session, client, cpos, client_out, server_out,
                server_in, upstream_eof, up>>

\* The handlers are coroutines without an await: they run one at a time on
\* the API thread's loop.  The sessions run on the main thread, so that a
\* session's insert can fall between two steps of the listing's iteration
\* over quarantine_store.items().

\* GET /quarantine, the iterator over quarantine_store.items() is made
list_quarantined_emails_iter ==
    /\ listing = NoListing
    /\ listing' = Cardinality(DOMAIN quarantine_store)
    /\ UNCHANGED <<response, quarantine_store>>
    /\ UnchangedByApi

\* GET /quarantine, the iteration ends: with the listing, or with
\* "RuntimeError: dictionary changed size during iteration" when a record
\* was inserted since the iterator was made
list_quarantined_emails_end ==
    /\ listing # NoListing
    /\ listing' = NoListing
    /\ response' =
         IF Cardinality(DOMAIN quarantine_store) # listing
         THEN [status_code |-> 500]
         ELSE [status_code |-> 200,
               body |-> [eid \in DOMAIN quarantine_store |->
                            with_id(eid, quarantine_store[eid])]]
    /\ UNCHANGED quarantine_store
    /\ UnchangedByApi

\* GET /quarantine with no step of a session between the two: the iterator
\* is made and runs to its end
list_quarantined_emails ==
    /\ listing = NoListing
    /\ response' = [status_code |-> 200,
                    body |-> [eid \in DOMAIN quarantine_store |->
                                 with_id(eid, quarantine_store[eid])]]
    /\ UNCHANGED <<listing, quarantine_store>>
    /\ UnchangedByApi

get_quarantined_email(email_id) ==
    /\ listing = NoListing
    /\ UNCHANGED listing
    /\ IF email_id \notin DOMAIN quarantine_store
       THEN response' = HTTPException
       ELSE response' = [status_code |-> 200,
                         body |-> with_id(email_id, quarantine_store[email_id])]
    /\ UNCHANGED quarantine_store
    /\ UnchangedByApi

\* (a variant that sets the status of a held record only)
set_status_once(email_id, value) ==
    IF email_id \notin DOMAIN quarantine_store
    THEN response' = HTTPException /\ UNCHANGED quarantine_store
    ELSE /\ quarantine_store' =
              IF quarantine_store[email_id].status = "held"
              THEN [quarantine_store EXCEPT ![email_id].status = value]
              ELSE quarantine_store
         /\ response' = [status_code |-> 200,
                         body |-> with_id(email_id, quarantine_store'[email_id])]
\* (a variant that stores a new record in place of the old one)
set_status_rewritten(email_id, value) ==
    IF email_id \notin DOMAIN quarantine_store
    THEN response' = HTTPException /\ UNCHANGED quarantine_store
    ELSE /\ quarantine_store' =
              [quarantine_store EXCEPT ![email_id] =
                  [meta |-> NoMeta, content |-> <<>>, status |-> value]]
         /\ response' = [status_code |-> 200,
                         body |-> with_id(email_id, quarantine_store'[email_id])]
\* (a variant without the test for a missing identifier)
set_status_unchecked(email_id, value) ==
    IF email_id \notin DOMAIN quarantine_store
    THEN response' = [status_code |-> 500] /\ UNCHANGED quarantine_store
    ELSE /\ quarantine_store' = [quarantine_store EXCEPT ![email_id].status = value]
         /\ response' = [status_code |-> 200,
                         body |-> with_id(email_id, quarantine_store'[email_id])]
\* quarantine_store[email_id]["status"] = value, and the record returned
set_status(email_id, value) ==
    IF email_id \notin DOMAIN quarantine_store
    THEN response' = HTTPException /\ UNCHANGED quarantine_store
    ELSE /\ quarantine_store' = [quarantine_store EXCEPT ![email_id].status = value]
         /\ response' = [status_code |-> 200,
                         body |-> with_id(email_id, quarantine_store'[email_id])]

\* a handler that runs while no listing is under way
Handler == listing = NoListing /\ UNCHANGED listing /\ UnchangedByApi

approve_quarantined_email(email_id) ==
    set_status(email_id, "approved") /\ Handler

\* (a variant that stores another word)
delete_as_discarded(email_id) ==
    set_status(email_id, "discarded") /\ Handler
\* (a variant that takes the record out of the store)
delete_as_removed(email_id) ==
    /\ IF email_id \notin DOMAIN quarantine_store
       THEN response' = HTTPException /\ UNCHANGED quarantine_store
       ELSE /\ quarantine_store' =
                 [id \in DOMAIN quarantine_store \ {email_id} |-> quarantine_store[id]]
            /\ response' = [status_code |-> 200,
                            body |-> with_id(email_id,
                                       [quarantine_store[email_id] EXCEPT
                                           !.status = "deleted"])]
    /\ Handler
delete_quarantined_email(email_id) ==
    set_status(email_id, "deleted") /\ Handler

\* the client uploads messages
ClientSendAppend == Send({"append_sync"}, MaxCmds)

\* sessions holding uploaded messages while the API is called
NextStore ==
    \/ connect_upstream
    \/ relay_server_greeting
    \/ handle
    \/ relay_until_tag
    \/ handle_append
    \/ handle_append_body
    \/ handle_finally
    \/ ClientSendAppend
    \/ ClientClose
    \/ UpstreamLine
    \/ UpstreamLiteral
    \/ list_quarantined_emails
    \/ \E email_id \in Ids : get_quarantined_email(email_id)
    \/ \E email_id \in Ids : approve_quarantined_email(email_id)
    \/ \E email_id \in Ids : delete_quarantined_email(email_id)

SpecStore == Init /\ [][NextStore]_vars

\* the same, with listings that steps of a session fall into
NextList ==
    \/ connect_upstream
    \/ relay_server_greeting
    \/ handle
    \/ relay_until_tag
    \/ handle_append
    \/ handle_append_body
    \/ handle_finally
    \/ ClientSendAppend
    \/ UpstreamLine
    \/ UpstreamLiteral
    \/ list_quarantined_emails_iter
    \/ list_quarantined_emails_end
    \/ \E email_id \in Ids : get_quarantined_email(email_id)
    \/ \E email_id \in Ids : approve_quarantined_email(email_id)
    \/ \E email_id \in Ids : delete_quarantined_email(email_id)

SpecList == Init /\ [][NextList]_vars

(***************************************************************************)
(* Sessions that upload the sample messages                                *)
(***************************************************************************)
InitAppend ==
    /\ QUARANTINE_ENABLED \in BOOLEAN
    /\ FILTER_MIN_AMOUNT \in SampleThresholds
    /\ InitSession

ClientSendSample == Send(SampleKinds, MaxAppends)

NextAppend ==
    \/ connect_upstream
    \/ relay_server_greeting
    \/ handle
    \/ relay_until_tag
    \/ handle_append
    \/ handle_append_body
    \/ handle_finally
    \/ ClientSendSample
    \/ UpstreamLine
    \/ UpstreamLiteral

SpecAppend == InitAppend /\ [][NextAppend]_vars


(***************************************************************************)
(* Sessions whose client sends the lines that try the command parser       *)
(***************************************************************************)
ClientSendLine == Send(ParseKinds, MaxLines)

NextParse ==
    \/ connect_upstream
    \/ relay_server_greeting
    \/ handle
    \/ forward_and_relay
    \/ relay_until_tag
    \/ handle_append
    \/ handle_append_body
    \/ handle_finally
    \/ ClientSendLine
    \/ ClientClose
    \/ UpstreamLine
    \/ UpstreamLiteral

SpecParse == Init /\ [][NextParse]_vars

(***************************************************************************)
(* The accounts API (FastAPI handlers over accounts_store)                 *)
(***************************************************************************)
MaxAccounts == 3
Emails == {"a@example.org", "b@example.org"}
Passwords == {"p", "q"}
\* AccountIn: the fields a caller chooses; the others have one value each
AccountIn == [email : Emails, password : Passwords]
AccountIds == {ToString(i) : i \in 1 .. MaxAccounts}

\* raise HTTPException(status_code=409, ...) and (status_code=404, ...)
Conflict == [status_code |-> 409, detail |-> "Account with this email already exists"]
AccountNotFound == [status_code |-> 404, detail |-> "Account not found"]

\* Account(id=aid, **adata)
Account(aid, adata) == [id |-> aid, email |-> adata.email, password |-> adata.password]

UnchangedByAccounts ==
    UNCHANGED <<config, session, client, listing, startup, tool, cpos, client_out,
                server_out, server_in, upstream_eof, up, quarantine_store>>

\* GET /accounts
list_accounts ==
    /\ response' = [status_code |-> 200,
                    body |-> [aid \in DOMAIN accounts_store |->
                                 Account(aid, accounts_store[aid])]]
    /\ UNCHANGED accounts
    /\ UnchangedByAccounts

\* POST /accounts
create_account(account) ==
    /\ IF \E aid \in DOMAIN accounts_store : accounts_store[aid].email = account.email
       THEN response' = Conflict /\ UNCHANGED accounts
       ELSE /\ account_ids < MaxAccounts
            /\ LET aid == ToString(account_ids + 1)
               IN  /\ account_ids' = account_ids + 1
                   /\ accounts_store' = (aid :> account) @@ accounts_store
                   /\ response' = [status_code |-> 200, body |-> Account(aid, account)]
    /\ UnchangedByAccounts

\* PUT /accounts/{account_id}
update_account(account_id, account) ==
    /\ IF account_id \notin DOMAIN accounts_store
       THEN response' = AccountNotFound /\ UNCHANGED accounts
       ELSE /\ accounts_store' = [accounts_store EXCEPT ![account_id] = account]
            /\ response' = [status_code |-> 200, body |-> Account(account_id, account)]
            /\ UNCHANGED account_ids
    /\ UnchangedByAccounts

\* DELETE /accounts/{account_id}
delete_account(account_id) ==
    /\ IF account_id \notin DOMAIN accounts_store
       THEN response' = AccountNotFound /\ UNCHANGED accounts
       ELSE /\ accounts_store' = [aid \in DOMAIN accounts_store \ {account_id} |->
                                     accounts_store[aid]]
            /\ response' = [status_code |-> 200,
                            body |-> Account(account_id, accounts_store[account_id])]
            /\ UNCHANGED account_ids
    /\ UnchangedByAccounts

InitApi ==
    /\ QUARANTINE_ENABLED = TRUE
    /\ FILTER_MIN_AMOUNT = DefaultThreshold
    /\ InitSession

NextAccounts ==
    \/ list_accounts
    \/ \E account \in AccountIn : create_account(account)
    \/ \E account_id \in AccountIds : \E account \in AccountIn :
          update_account(account_id, account)
    \/ \E account_id \in AccountIds : delete_account(account_id)

SpecAccounts == InitApi /\ [][NextAccounts]_vars

(***************************************************************************)
(* Server startup: main_async, start_imap_server, imap_client_handler      *)
(***************************************************************************)
MaxConns == 3

\* a call that returns or raises
Outcomes == {"ok", "raise"}

UnchangedByStartup ==
    UNCHANGED <<config, session, client, api, accounts, tool, cpos, client_out,
                server_out, server_in, upstream_eof, up, quarantine_store>>

\* servers.append(await start_imap_server(LISTEN_HOST, UNSECURE_PORT, None)),
\* outside any try: an exception leaves main_async and asyncio.run
start_plain_server ==
    /\ main_pc = "start_plain"
    /\ \E o \in Outcomes :
          IF o = "ok"
          THEN servers' = Append(servers, "plain") /\ main_pc' = "build_ssl_context"
          ELSE servers' = servers /\ main_pc' = "failed"
    /\ UNCHANGED <<sessions, tls_error>>
    /\ UnchangedByStartup

\* (a variant without the try: the exception leaves main_async)
tls_failed_uncaught(call) == main_pc' = "failed" /\ tls_error' = call
\* except Exception as e: logger.warning(...), and main_async goes on to
\* serve what is in servers
tls_failed(call) == main_pc' = "serving" /\ tls_error' = call

\* ssl_ctx = build_ssl_context(TLS_CERT_FILE, TLS_KEY_FILE), no await
build_ssl_context ==
    /\ main_pc = "build_ssl_context"
    /\ \E o \in Outcomes :
          IF o = "ok"
          THEN main_pc' = "start_tls" /\ UNCHANGED tls_error
          ELSE tls_failed("build_ssl_context")
    /\ UNCHANGED <<servers, sessions>>
    /\ UnchangedByStartup

\* servers.append(await start_imap_server(LISTEN_HOST, SECURE_PORT, ssl_ctx)),
\* and then asyncio.gather of the servers' serve_forever
start_tls_server ==
    /\ main_pc = "start_tls"
    /\ \E o \in Outcomes :
          IF o = "ok"
          THEN /\ servers' = Append(servers, "tls")
               /\ main_pc' = "serving"
               /\ UNCHANGED tls_error
          ELSE servers' = servers /\ tls_failed("start_imap_server")
    /\ UNCHANGED sessions
    /\ UnchangedByStartup

\* ProxyConfig(): a new object for each call
ProxyConfig == Len(sessions) + 1

\* A listener accepts a connection and calls imap_client_handler: a new
\* session with a new ProxyConfig.  Listeners accept from start_server on,
\* whenever the loop runs: while main_async awaits the start of the TLS
\* listener, and in serve_forever.
imap_client_handler(via) ==
    /\ main_pc \in {"start_tls", "serving"}
    /\ \E k \in DOMAIN servers : servers[k] = via
    /\ Len(sessions) < MaxConns
    /\ sessions' = Append(sessions,
                       [via |-> via, session |-> Len(sessions) + 1,
                        config |-> ProxyConfig, done |-> FALSE])
    /\ UNCHANGED <<main_pc, servers, tls_error>>
    /\ UnchangedByStartup

\* await session.handle() returns
handle_returns(k) ==
    /\ ~sessions[k].done
    /\ sessions' = [sessions EXCEPT ![k].done = TRUE]
    /\ UNCHANGED <<main_pc, servers, tls_error>>
    /\ UnchangedByStartup

NextStartup ==
    \/ start_plain_server
    \/ build_ssl_context
    \/ start_tls_server
    \/ \E via \in {"plain", "tls"} : imap_client_handler(via)
    \/ \E k \in DOMAIN sessions : handle_returns(k)

SpecStartup == InitApi /\ [][NextStartup]_vars

(***************************************************************************)
(* The batch tool: EmailFilterApp.run, process_email (src/main.py) over    *)
(* EmailClient (src/email_client.py)                                       *)
(***************************************************************************)
MaxEmails == 2
MaxAttachments == 2

UnchangedByTool ==
    UNCHANGED <<config, session, client, api, accounts, startup, cpos, client_out,
                server_out, server_in, upstream_eof, up, quarantine_store>>

\* a call or an increment, recorded: op, the email it is for (0 for none),
\* what was got, and a number
Call(op, id, got, n) == [op |-> op, id |-> id, got |-> got, n |-> n]
Record(op, got, n) ==
    calls' = Append(calls, Call(op, IF cur \in DOMAIN email_ids THEN email_ids[cur] ELSE 0,
                                got, n))

\* (a variant in which a return statement leaves run at once)
Return_direct(value) == result' = value /\ tool_pc' = "done"
\* return value, inside try ... finally: the finally block runs next
Return(value) == result' = value /\ tool_pc' = "disconnect"

\* if not self.email_client.connect(): return False
connect ==
    /\ tool_pc = "connect"
    /\ \E ok \in BOOLEAN :
          /\ Record("connect", IF ok THEN "True" ELSE "False", 0)
          /\ IF ok THEN tool_pc' = "select_folder" /\ UNCHANGED result
             ELSE Return("False")
    /\ UNCHANGED <<email_ids, cur, atts, processed_count, failed_count>>
    /\ UnchangedByTool

\* if not self.email_client.select_folder(): return False
select_folder ==
    /\ tool_pc = "select_folder"
    /\ \E ok \in BOOLEAN :
          /\ Record("select_folder", IF ok THEN "True" ELSE "False", 0)
          /\ IF ok THEN tool_pc' = "get_unread_emails" /\ UNCHANGED result
             ELSE Return("False")
    /\ UNCHANGED <<email_ids, cur, atts, processed_count, failed_count>>
    /\ UnchangedByTool

\* email_ids = self.email_client.get_unread_emails();
\* if not email_ids: return True
get_unread_emails ==
    /\ tool_pc = "get_unread_emails"
    /\ \E n \in 0 .. MaxEmails :
          /\ email_ids' = [i \in 1 .. n |-> i]
          /\ calls' = Append(calls, Call("get_unread_emails", 0, "list", n))
          /\ IF n = 0 THEN Return("True") /\ UNCHANGED cur
             ELSE tool_pc' = "fetch_email" /\ cur' = 1 /\ UNCHANGED result
    /\ UNCHANGED <<atts, processed_count, failed_count>>
    /\ UnchangedByTool

\* process_email has returned: the for loop takes the next email, or is over
NextEmail ==
    /\ cur' = cur + 1
    /\ tool_pc' = IF cur < Len(email_ids) THEN "fetch_email"
                  ELSE "create_summary_report"

\* (a variant that takes every answer of fetch_email for a message)
falsy_never(got) == FALSE
\* not email_msg: None, or a Message without headers (its __len__ is 0)
falsy(got) == got \in {"None", "no headers"}

\* self.failed_count += 1, and process_email returns
Fail ==
    /\ failed_count' = failed_count + 1
    /\ NextEmail
    /\ UNCHANGED <<email_ids, atts, processed_count, result>>

\* email_msg = self.email_client.fetch_email(email_id);
\* if not email_msg: self.failed_count += 1; return
fetch_email ==
    /\ tool_pc = "fetch_email"
    /\ \E got \in {"None", "no headers", "message"} :
          IF falsy(got)
          THEN /\ calls' = calls \o <<Call("fetch_email", email_ids[cur], got, 0),
                                      Call("failed", email_ids[cur], "", 0)>>
               /\ Fail
          ELSE /\ Record("fetch_email", got, 0)
               /\ tool_pc' = "get_attachments"
               /\ UNCHANGED <<email_ids, cur, atts, processed_count, failed_count,
                              result>>
    /\ UnchangedByTool

\* attachments = self.email_client.get_attachments(email_msg);
\* if not attachments: self.email_client.mark_as_read(email_id); return
get_attachments ==
    /\ tool_pc = "get_attachments"
    /\ \E n \in 0 .. MaxAttachments :
          IF n = 0
          THEN /\ calls' = calls \o <<Call("get_attachments", email_ids[cur], "list", 0),
                                      Call("mark_as_read", email_ids[cur], "", 0)>>
               /\ NextEmail
               /\ UNCHANGED <<email_ids, atts, processed_count, failed_count, result>>
          ELSE /\ Record("get_attachments", "list", n)
               /\ atts' = n
               /\ tool_pc' = "process_attachment"
               /\ UNCHANGED <<email_ids, cur, processed_count, failed_count, result>>
    /\ UnchangedByTool

\* for attachment in attachments: self.process_attachment(...), which
\* catches what it raises
process_attachment ==
    /\ tool_pc = "process_attachment"
    /\ Record("process_attachment", "", atts)
    /\ atts' = atts - 1
    /\ tool_pc' = IF atts = 1 THEN "mark_as_read" ELSE "process_attachment"
    /\ UNCHANGED <<email_ids, cur, processed_count, failed_count, result>>
    /\ UnchangedByTool

\* self.email_client.mark_as_read(email_id); self.processed_count += 1
mark_as_read ==
    /\ tool_pc = "mark_as_read"
    /\ calls' = calls \o <<Call("mark_as_read", email_ids[cur], "", 0),
                           Call("processed", email_ids[cur], "", 0)>>
    /\ processed_count' = processed_count + 1
    /\ NextEmail
    /\ UNCHANGED <<email_ids, atts, failed_count, result>>
    /\ UnchangedByTool

\* a statement of process_email's try block raises an Exception:
\* except Exception: self.failed_count += 1
process_email_except ==
    /\ tool_pc \in {"fetch_email", "get_attachments", "process_attachment",
                    "mark_as_read"}
    /\ Record("failed", "Exception", 0)
    /\ Fail
    /\ UnchangedByTool

\* self.data_manager.create_summary_report(...); return True
create_summary_report ==
    /\ tool_pc = "create_summary_report"
    /\ calls' = Append(calls, Call("create_summary_report", 0, "", 0))
    /\ Return("True")
    /\ UNCHANGED <<email_ids, cur, atts, processed_count, failed_count>>
    /\ UnchangedByTool

\* a statement of run's try block outside process_email raises an
\* Exception: except Exception: return False
run_except ==
    /\ tool_pc \in {"get_unread_emails", "fetch_email", "create_summary_report"}
    /\ calls' = Append(calls, Call("except", 0, "Exception", 0))
    /\ Return("False")
    /\ UNCHANGED <<email_ids, cur, atts, processed_count, failed_count>>
    /\ UnchangedByTool

\* finally: self.email_client.disconnect(), which catches what it raises
disconnect ==
    /\ tool_pc = "disconnect"
    /\ calls' = Append(calls, Call("disconnect", 0, "", 0))
    /\ tool_pc' = "cleanup_temp_files"
    /\ UNCHANGED <<email_ids, cur, atts, processed_count, failed_count, result>>
    /\ UnchangedByTool

\* finally: self.data_manager.cleanup_temp_files(), and run returns
cleanup_temp_files ==
    /\ tool_pc = "cleanup_temp_files"
    /\ calls' = Append(calls, Call("cleanup_temp_files", 0, "", 0))
    /\ tool_pc' = "done"
    /\ UNCHANGED <<email_ids, cur, atts, processed_count, failed_count, result>>
    /\ UnchangedByTool

NextTool ==
    \/ connect
    \/ select_folder
    \/ get_unread_emails
    \/ fetch_email
    \/ get_attachments
    \/ process_attachment
    \/ mark_as_read
    \/ process_email_except
    \/ create_summary_report
    \/ run_except
    \/ disconnect
    \/ cleanup_temp_files

SpecTool == InitApi /\ [][NextTool]_vars
Spec == Init /\ [][Next]_vars

(***************************************************************************)
(* Properties                                                              *)
(***************************************************************************)
\* the bytes the client sent right after the command line of log[i]
Following(i, n) ==
    SubSeq(client_in, log[i].at + Len(log[i].line) + 1,
                      log[i].at + Len(log[i].line) + n)

\* log[i] is an APPEND whose line announces a literal, {N} or {N+}
AppendWithLiteral(i, sync) ==
    /\ log[i].cmd = APPEND
    /\ imap_literal(log[i].line).size >= 0
    /\ imap_literal(log[i].line).sync = sync

\* the lines the client was sent that begin with the tag and a space
TaggedLines(tag) == {j \in DOMAIN client_out : is_tagged(client_out[j].data, tag)}

\* an amount in hundredths (for amounts of at most two decimals)
Cents(a) == a.n * Pow10(2 - a.k)

\* C1 (P3, hold => silence): the session writes nothing upstream for a held
\* APPEND: server_out does not grow between reading the APPEND line and
\* reading the next client line, and no later write belongs to that APPEND.
C1_HoldSilence ==
    \A i \in DOMAIN log :
        log[i].decision = "hold" =>
            /\ \A j \in DOMAIN server_out : server_out[j].n # i
            /\ log[i].up_before =
                 IF i < Len(log) THEN log[i + 1].up_before ELSE Len(server_out)

\* a held APPEND, then a later command that was forwarded upstream
C1_Witness ==
    \E i \in DOMAIN log :
        /\ log[i].decision = "hold"
        /\ i < Len(log)
        /\ Len(server_out) > log[i].up_before

\* C2: a step of handle_append that takes the hold path for tag T adds
\* exactly one record to the store, with status "held", the extracted
\* subject, sender and amount and the base64 of the N bytes received; it
\* writes to the client exactly the line "T OK APPEND completed (held by
\* proxy)\r\n" and nothing upstream; and unless that write fails the session
\* is back in the command loop, alive.
C2_HoldPath ==
    [][ ( /\ pc = "handle_append"
          /\ pc' # pc
          /\ log'[Len(log)].decision = "hold" )
        =>
        LET received == Following(Len(log), imap_literal(Cur.line).size)
            new      == DOMAIN quarantine_store' \ DOMAIN quarantine_store
        IN  /\ Cardinality(new) = 1
            /\ DOMAIN quarantine_store \subseteq DOMAIN quarantine_store'
            /\ \A id \in DOMAIN quarantine_store :
                  quarantine_store'[id] = quarantine_store[id]
            /\ \A id \in new :
                  /\ quarantine_store'[id].status = "held"
                  /\ quarantine_store'[id].meta = extract_meta_and_amount(received)
                  /\ b64decode(quarantine_store'[id].content) = received
            /\ Len(client_out') = Len(client_out) + 1
            /\ SubSeq(client_out', 1, Len(client_out)) = client_out
            /\ client_out'[Len(client_out')].data =
                 Cur.tag \o <<" ", "O", "K", " ", "A", "P", "P", "E", "N",
                              "D", " ", "c", "o", "m", "p", "l", "e", "t",
                              "e", "d", " ", "(", "h", "e", "l", "d", " ",
                              "b", "y", " ", "p", "r", "o", "x", "y", ")",
                              "\r", "\n">>
            /\ server_out' = server_out
            /\ error' = "none" => (pc' = "loop" /\ alive')
      ]_vars

\* the session is back in its loop after a held APPEND
C2_Witness ==
    /\ pc = "loop" /\ alive /\ error = "none"
    /\ log # <<>> /\ Cur.decision = "hold"
    /\ quarantine_store # <<>>
    /\ client_out # <<>>
    /\ client_out[Len(client_out)].src = "proxy"

\* C3 (P1, tag conservation): when the session has closed without an error,
\* every command it read has had exactly one line that begins with its tag,
\* except the command during which upstream was first found closed.
C3_TagConservation ==
    (pc = "closed" /\ error = "none") =>
        \A i \in DOMAIN log :
            i # eof_seen => Cardinality(TaggedLines(log[i].tag)) = 1

\* the amounts the policy is tried on, besides the thresholds
SampleAmounts ==
    Thresholds \cup {Zero, [n |-> 949, k |-> 2], [n |-> 951, k |-> 2],
                     [n |-> 2499, k |-> 2], [n |-> 2501, k |-> 2], [n |-> 30, k |-> 0]}

C6_ContinuationSent ==
    \A i \in DOMAIN log :
        (AppendWithLiteral(i, TRUE) /\ log[i].decision # "none") =>
            \E j \in DOMAIN client_out :
                /\ client_out[j].n = i
                /\ client_out[j].src = "proxy"
                /\ client_out[j].data = <<"+", " ", "R", "e", "a", "d", "y",
                                          " ", "f", "o", "r", " ", "l", "i",
                                          "t", "e", "r", "a", "l", " ", "d",
                                          "a", "t", "a", "\r", "\n">>

\* C7: for an APPEND with a non-synchronizing literal {N+} the session reads
\* the N bytes after the command line as the message, and every line the
\* command loop reads is the command line of a command the client sent.
C7_NonSyncLiteral ==
    /\ \A i \in DOMAIN log :
          (AppendWithLiteral(i, FALSE) /\ log[i].decision # "none") =>
              /\ log[i].size = imap_literal(log[i].line).size
              /\ log[i].literal = Following(i, log[i].size)
    /\ \A i \in DOMAIN log :
          \E k \in DOMAIN issued : issued[k].at = log[i].at

\* C8: nothing the session itself writes to the client for a command with a
\* non-synchronizing literal {N+} is a continuation line.
C8_NoContinuationForNonSync ==
    \A j \in DOMAIN client_out :
        ( /\ client_out[j].n >= 1
          /\ client_out[j].src = "proxy"
          /\ imap_literal(log[client_out[j].n].line).size >= 0
          /\ ~imap_literal(log[client_out[j].n].line).sync )
        => ~startswith(client_out[j].data, <<"+">>)

\* the session has handled an APPEND with a {N+} literal and relays
C8_Witness ==
    /\ pc = "relay_until_tag"
    /\ AppendWithLiteral(Len(log), FALSE)
    /\ Cur.decision # "none"

\* C9 (P2, byte transparency): what the session writes upstream for a
\* command that is not APPEND is the client's line, byte for byte.
C9_ByteTransparency ==
    \A j \in DOMAIN server_out :
        server_out[j].kind = "line" =>
            server_out[j].data = log[server_out[j].n].line

\* C10: when the session writes the body of a delivered APPEND with a
\* synchronizing literal, it has read upstream's continuation for that
\* command.
C10_BodyAfterContinuation ==
    \A j \in DOMAIN server_out :
        (server_out[j].kind = "body" /\ log[server_out[j].n].size >= 0) =>
            \E k \in DOMAIN client_out :
                /\ client_out[k].n = server_out[j].n
                /\ client_out[k].src = "upstream"
                /\ startswith(client_out[k].data, <<"+">>)

\* C11: the session relays upstream's lines in the order upstream sent them,
\* each verbatim and none skipped: whenever a line leaves the buffer of
\* lines upstream has sent, it is the oldest one and it is what the session
\* writes to the client next; so every line upstream sent before a tagged
\* completion reaches the client before it.  What the session writes
\* upstream follows the order in which the client sent its commands.
C11_Ordering ==
    [][ /\ (server_in # <<>> /\ server_in' = Tail(server_in)) =>
              /\ Len(client_out') = Len(client_out) + 1
              /\ SubSeq(client_out', 1, Len(client_out)) = client_out
              /\ client_out'[Len(client_out')].data = Head(server_in)
              /\ client_out'[Len(client_out')].src = "upstream"
        /\ (\E j \in DOMAIN client_out' :
               j > Len(client_out) /\ client_out'[j].src = "upstream") =>
              server_in # <<>> /\ server_in' = Tail(server_in)
        /\ \A j, k \in DOMAIN server_out' :
              j < k => /\ server_out'[j].n <= server_out'[k].n
                       /\ log'[server_out'[j].n].at <= log'[server_out'[k].n].at
      ]_vars

\* an untagged line and then the tagged completion of the same command have
\* been relayed
C11_Witness ==
    \E j \in DOMAIN client_out :
        /\ j < Len(client_out)
        /\ client_out[j].n >= 1
        /\ client_out[j].src = "upstream"
        /\ startswith(client_out[j].data, <<"*">>)
        /\ client_out[j + 1].src = "upstream"
        /\ is_tagged(client_out[j + 1].data, log[client_out[j].n].tag)

\* C12: for a command other than APPEND whose line ends in a literal {N},
\* the session is never waiting for upstream while upstream waits for the
\* literal and the client has sent it.
C12_LiteralCopied ==
    ~ ( /\ pc = "forward_and_relay"
        /\ Cur.cmd # APPEND
        /\ imap_literal(Cur.line).size >= 0
        /\ imap_literal(Cur.line).sync
        /\ server_in = <<>>
        /\ up.mode = "literal"
        /\ ~upstream_eof /\ ~client_eof
        /\ Len(client_in) - cpos >= imap_literal(Cur.line).size + 2 )

\* C13: once server_reader has returned EOF, after the greeting or in the
\* middle of a response, the session reads no further client command.
C13_UpstreamEof ==
    (eof_seen >= 0 /\ client_out # <<>> /\ client_out[1].data = Greeting) =>
        \A i \in DOMAIN log : i <= eof_seen

\* C14: no client command is read after a LOGOUT; and when the session has
\* closed after a LOGOUT that upstream answered, the line was forwarded,
\* upstream's lines up to the tagged completion have reached the client in
\* order, and both connections are closed.
C14_Logout ==
    /\ \A i \in DOMAIN log : log[i].cmd = LOGOUT => i = Len(log)
    /\ ( /\ pc = "closed" /\ error = "none"
         /\ log # <<>> /\ Cur.cmd = LOGOUT
         /\ eof_seen < 0 ) =>
           /\ ~alive
           /\ closed.client /\ closed.server
           /\ \E j \in DOMAIN server_out :
                 server_out[j].n = Len(log) /\ server_out[j].data = Cur.line
           /\ \E j \in DOMAIN client_out :
                 /\ j < Len(client_out)
                 /\ client_out[j].n = Len(log)
                 /\ client_out[j].src = "upstream"
                 /\ client_out[j].data = <<"*", " ", "B", "Y", "E", "\r", "\n">>
                 /\ client_out[j + 1].n = Len(log)
                 /\ client_out[j + 1].src = "upstream"
                 /\ client_out[j + 1].data = Cur.tag \o <<" ", "O", "K",
                                                          "\r", "\n">>

\* the session has closed after an answered LOGOUT and has left a later
\* command of the client unread
C14_Witness ==
    /\ pc = "closed" /\ error = "none"
    /\ log # <<>> /\ Cur.cmd = LOGOUT
    /\ eof_seen < 0
    /\ cpos < Len(client_in)

\* C15: when the session has ended, close() has been called on the client
\* writer, and on the upstream writer if connect_upstream had set it, also
\* when closing the upstream writer raised.
C15_BothClosed ==
    pc = "closed" => /\ closed.client
                     /\ server_writer => closed.server

\* the session has ended, closing the upstream writer raised, and the client
\* writer is closed
C15_Witness ==
    /\ pc = "closed"
    /\ closed.server_error
    /\ closed.client

\* C16: the first thing written to the client is upstream's greeting,
\* verbatim, and it has been written once the session has read a client
\* line or written anything upstream.
C16_GreetingFirst ==
    /\ client_out # <<>> =>
          /\ client_out[1].data = Greeting
          /\ client_out[1].src = "upstream"
          /\ client_out[1].n = 0
    /\ (log # <<>> \/ server_out # <<>>) => client_out # <<>>

\* C17: when opening the upstream connection failed, the session has written
\* nothing to the client or upstream and has read nothing from the client,
\* and it ends.
C17_ConnectFailure ==
    ~server_writer =>
        /\ client_out = <<>>
        /\ server_out = <<>>
        /\ log = <<>>
        /\ cpos = 0
        /\ pc \in {"connect_upstream", "finally", "closed"}

\* the session has ended on a failed connect while the client had sent
\* commands
C17_Witness ==
    /\ pc = "closed"
    /\ ~server_writer
    /\ error = "OSError"
    /\ client_in # <<>>

\* C18 (P6, store monotonicity): in every step, of a session or of the API,
\* a record whose status is not "held" does not get the status "held".
C18_StoreMonotone ==
    [][ \A id \in DOMAIN quarantine_store :
          (quarantine_store[id].status # "held"
           /\ id \in DOMAIN quarantine_store') =>
              quarantine_store'[id].status # "held" ]_vars

\* a record has been approved and a later APPEND has been held
C18_Witness ==
    \E id, other \in DOMAIN quarantine_store :
        /\ quarantine_store[id].status = "approved"
        /\ quarantine_store[other].status = "held"
        /\ b64decode(quarantine_store[other].content) = Cur.literal
        /\ Len(log) = 2

\* C19 as stated: every record's status is one of held, approved,
\* discarded.
C19_Discarded ==
    \A id \in DOMAIN quarantine_store :
        quarantine_store[id].status \in {"held", "approved", "discarded"}

\* C19 as amended: every record's status is one of held, approved, deleted;
\* a delete call for an identifier in the store sets that record's status
\* to "deleted", leaves the rest of the store alone and answers with the
\* record and its identifier.
C19_Deleted ==
    [][ /\ \A id \in DOMAIN quarantine_store' :
              quarantine_store'[id].status \in {"held", "approved", "deleted"}
        /\ \A id \in Ids :
              (id \in DOMAIN quarantine_store /\ delete_quarantined_email(id)) =>
                  /\ DOMAIN quarantine_store' = DOMAIN quarantine_store
                  /\ quarantine_store'[id].status = "deleted"
                  /\ quarantine_store'[id].meta = quarantine_store[id].meta
                  /\ quarantine_store'[id].content = quarantine_store[id].content
                  /\ \A other \in DOMAIN quarantine_store \ {id} :
                        quarantine_store'[other] = quarantine_store[other]
                  /\ response'.status_code = 200
                  /\ response'.body.id = id
                  /\ response'.body.status = "deleted"
                  /\ response'.body.meta = quarantine_store[id].meta
                  /\ response'.body.content = quarantine_store[id].content
      ]_vars

\* a delete call has answered with the record
C19_Witness ==
    /\ response.status_code = 200
    /\ \E id \in DOMAIN quarantine_store :
          /\ quarantine_store[id].status = "deleted"
          /\ response = [status_code |-> 200,
                         body |-> with_id(id, quarantine_store[id])]

\* C20: a get, approve or delete call for an identifier that is not in the
\* store answers 404 and leaves the store as it was; an approve call for an
\* identifier in the store sets that record's status to "approved", leaves
\* the rest of the store alone and answers with the record.
C20_NotFound ==
    [][ \A id \in Ids :
          /\ ( /\ id \notin DOMAIN quarantine_store
               /\ \/ get_quarantined_email(id)
                  \/ approve_quarantined_email(id)
                  \/ delete_quarantined_email(id) ) =>
                 /\ response'.status_code = 404
                 /\ quarantine_store' = quarantine_store
          /\ (id \in DOMAIN quarantine_store /\ approve_quarantined_email(id)) =>
                 /\ DOMAIN quarantine_store' = DOMAIN quarantine_store
                 /\ quarantine_store'[id].status = "approved"
                 /\ \A other \in DOMAIN quarantine_store \ {id} :
                       quarantine_store'[other] = quarantine_store[other]
                 /\ response'.status_code = 200
                 /\ response'.body.id = id
                 /\ response'.body.status = "approved"
                 /\ response'.body.meta = quarantine_store[id].meta
                 /\ response'.body.content = quarantine_store[id].content
      ]_vars

\* a call has answered 404 while the store holds an approved record
C20_Witness ==
    /\ response.status_code = 404
    /\ \E id \in DOMAIN quarantine_store :
          quarantine_store[id].status = "approved"
    /\ \E id \in Ids : id \notin DOMAIN quarantine_store

\* the commands whose message was held, and the k-th of them
HeldIndices == {i \in DOMAIN log : log[i].decision = "hold"}
HeldIndex(k) ==
    CHOOSE i \in HeldIndices : Cardinality({j \in HeldIndices : j <= i}) = k

\* C21: in every reachable state, whatever API calls and further APPENDs
\* came before, the content of the k-th record base64-decodes to the N bytes
\* the client sent after the line of the k-th held APPEND and its metadata
\* are those extracted then; and the record a get, approve or delete call
\* has answered with has the content and the metadata of the record in the
\* store.
C21_ContentImmutable ==
    /\ \A k \in 1 .. MaxCmds :
          ToString(k) \in DOMAIN quarantine_store =>
              /\ k <= Cardinality(HeldIndices)
              /\ LET i == HeldIndex(k)
                     record == quarantine_store[ToString(k)]
                 IN  /\ b64decode(record.content) =
                           Following(i, imap_literal(log[i].line).size)
                     /\ record.meta = log[i].meta
    /\ (response.status_code = 200 /\ "id" \in DOMAIN response.body) =>
          /\ response.body.id \in DOMAIN quarantine_store
          /\ response.body.content = quarantine_store[response.body.id].content
          /\ response.body.meta = quarantine_store[response.body.id].meta

\* the first record has been approved, a later APPEND has been held, and a
\* call has answered with the first record, whose content is the bytes the
\* client sent
C21_Witness ==
    /\ Cardinality(DOMAIN quarantine_store) = 2
    /\ quarantine_store["1"].status = "approved"
    /\ response = [status_code |-> 200,
                   body |-> with_id("1", quarantine_store["1"])]
    /\ b64decode(response.body.content) = log[1].literal
    /\ log[1].literal # <<>>
    /\ log[2].decision = "hold"

\* C22: no call of the quarantine API fails, whatever steps of a session
\* fall into it: every answer is the handler's own (the listing, the record,
\* or 404 for an unknown identifier), never the 500 of an exception that
\* escaped the handler.
C22_Atomic ==
    response.status_code \in {0, 200, 404}

\* C23: the store holds exactly as many records as APPENDs have been held,
\* and the metadata of every held message are those of a record: no insert
\* has taken the identifier of a record in the store.
C23_UniqueIds ==
    /\ Cardinality(DOMAIN quarantine_store) = Cardinality(HeldIndices)
    /\ \A i \in HeldIndices :
          \E id \in DOMAIN quarantine_store :
              quarantine_store[id].meta = log[i].meta

\* two APPENDs have been held, with different messages
C23_Witness ==
    /\ Cardinality(HeldIndices) = 2
    /\ Cardinality(DOMAIN quarantine_store) = 2
    /\ log[1].meta # log[2].meta

\* log[i] is an APPEND that handle_append has dealt with
AppendDone(i) == log[i].cmd = APPEND /\ log[i].decision # "none"

\* what the session wrote upstream for log[i], call by call
WrittenFor(i) == {j \in DOMAIN server_out : server_out[j].n = i}

\* C24: for an APPEND whose line does not end in a literal {N}, the session
\* writes upstream the client's line and nothing else, and holds nothing.
C24_Verbatim ==
    \A i \in DOMAIN log :
        (AppendDone(i) /\ literal_size(log[i].rest) < 0) =>
            /\ log[i].decision = "deliver"
            /\ \A j \in WrittenFor(i) : server_out[j].data = log[i].line

C26_Recoverable ==
    /\ error # "TypeError"
    /\ \A i \in DOMAIN log :
          (log[i].cmd = APPEND /\ log[i].size >= 0) => log[i].decision # "none"

\* the numbers of all the matches of the pattern in a text, whatever the
\* keyword and the position
Matched(s) ==
    {MatchAt(s, p[1], Keywords[p[2]]).amount :
        p \in {q \in (1 .. Len(s)) \X DOMAIN Keywords :
                  MatchAt(s, q[1], Keywords[q[2]]).end > 0}}

\* C27: the amount extracted from the message of an APPEND is the largest of
\* the numbers matched in the Subject and in the body, 0 when nothing
\* matches (as for the body "Total: twelve"), and never negative.
C27_MaxAmount ==
    \A i \in DOMAIN log :
        AppendDone(i) =>
            LET msg == parsebytes(log[i].literal)
                all == Matched(get(msg, <<"s", "u", "b", "j", "e", "c", "t">>)) \cup Matched(get_content(msg))
                amt == log[i].meta.amount
            IN  /\ GE(amt, Zero)
                /\ all = {} => amt = Zero
                /\ all # {} => (amt \in all /\ \A b \in all : GE(amt, b))
                /\ log[i].literal = MsgWords => amt = Zero

\* a message with a larger amount in the Subject and a smaller one in the
\* body has been inspected
C27_Witness ==
    \E i \in DOMAIN log :
        /\ AppendDone(i)
        /\ log[i].literal = MsgTwo
        /\ log[i].meta.amount = [n |-> 30, k |-> 0]
        /\ Cardinality(Matched(get_content(parsebytes(log[i].literal)))) = 1

\* C28: the message with "Total: 12,345.67" has the amount 12345.67, and is
\* held when quarantine is enabled with the threshold 1000.00.
C28_Thousands ==
    \A i \in DOMAIN log :
        (AppendDone(i) /\ log[i].literal = MsgThousands) =>
            /\ log[i].meta.amount = [n |-> 1234567, k |-> 2]
            /\ (QUARANTINE_ENABLED /\ FILTER_MIN_AMOUNT = [n |-> 1000, k |-> 0]) =>
                  log[i].decision = "hold"

\* C29 (P5, policy determinism): two APPENDs of a session (the configuration
\* being the same for both) whose extracted metadata are equal get the same
\* decision, whatever their tags, the commands before them and the records
\* in the store.
C29_Determinism ==
    \A i, j \in DOMAIN log :
        (AppendDone(i) /\ AppendDone(j) /\ log[i].meta = log[j].meta) =>
            log[i].decision = log[j].decision

\* two APPENDs with the same metadata have been held, the second one with a
\* record in the store
C29_Witness ==
    /\ Len(log) = 2
    /\ AppendDone(1) /\ AppendDone(2)
    /\ log[1].tag # log[2].tag
    /\ log[1].meta = log[2].meta
    /\ log[2].decision = "hold"
    /\ Cardinality(DOMAIN quarantine_store) = 2

\* C30: every line a step of the session writes to the client is the line it
\* took from upstream in that step, or the held-OK response with the tag of
\* the command at hand, or the continuation "+ Ready for literal data"; a
\* line that does not come from upstream does not begin with "*"; and what
\* was written before stays.
C30_NoOwnUntagged ==
    [][ /\ Len(client_out') >= Len(client_out)
        /\ SubSeq(client_out', 1, Len(client_out)) = client_out
        /\ \A j \in (Len(client_out) + 1) .. Len(client_out') :
              LET data    == client_out'[j].data
                  relayed == /\ server_in # <<>>
                             /\ server_in' = Tail(server_in)
                             /\ data = Head(server_in)
              IN  /\ \/ relayed
                     \/ /\ log' # <<>>
                        /\ data = log'[Len(log')].tag \o
                                  <<" ", "O", "K", " ", "A", "P", "P", "E",
                                    "N", "D", " ", "c", "o", "m", "p", "l",
                                    "e", "t", "e", "d", " ", "(", "h", "e",
                                    "l", "d", " ", "b", "y", " ", "p", "r",
                                    "o", "x", "y", ")", "\r", "\n">>
                     \/ data = <<"+", " ", "R", "e", "a", "d", "y", " ", "f",
                                 "o", "r", " ", "l", "i", "t", "e", "r", "a",
                                 "l", " ", "d", "a", "t", "a", "\r", "\n">>
                  /\ ~relayed => (data # <<>> /\ data[1] # "*")
      ]_vars

\* the client has been sent an untagged line of upstream's after a command
\* and the held-OK response of the proxy
C30_Witness ==
    /\ \E j \in DOMAIN client_out :
          /\ client_out[j].n > 0
          /\ startswith(client_out[j].data, <<"*">>)
    /\ \E j \in DOMAIN client_out :
          /\ client_out[j].n > 0
          /\ log[client_out[j].n].decision = "hold"
          /\ client_out[j].data = HeldOk(log[client_out[j].n].tag)

\* s has no ASCII space
NoSpace(s) == \A k \in DOMAIN s : s[k] # SP

\* c is s split on its first two ASCII spaces, absent fields empty, the
\* second field in upper case
SplitOnTwoSpaces(s, c) ==
    LET verb_of(v) == /\ Len(c.cmd) = Len(v)
                      /\ \A k \in DOMAIN v : \A n \in DOMAIN Lower : c.cmd[k] # Lower[n]
                      /\ lower(c.cmd) = lower(v)
    IN  \/ NoSpace(s) /\ c.tag = s /\ c.cmd = <<>> /\ c.rest = <<>>
        \/ \E p \in DOMAIN s :
              /\ s[p] = SP
              /\ NoSpace(SubSeq(s, 1, p - 1))
              /\ c.tag = SubSeq(s, 1, p - 1)
              /\ LET r == SubSeq(s, p + 1, Len(s))
                 IN  \/ NoSpace(r) /\ verb_of(r) /\ c.rest = <<>>
                     \/ \E q \in DOMAIN r :
                           /\ r[q] = SP
                           /\ NoSpace(SubSeq(r, 1, q - 1))
                           /\ verb_of(SubSeq(r, 1, q - 1))
                           /\ c.rest = SubSeq(r, q + 1, Len(r))

\* the line without its line terminator
Unterminated(line) ==
    IF Len(line) >= 2 /\ SubSeq(line, Len(line) - 1, Len(line)) = CRLF
    THEN SubSeq(line, 1, Len(line) - 2)
    ELSE line

\* the line without the whitespace at its two ends: from its first to its
\* last byte that is not whitespace
Trimmed(line) ==
    LET ns == {k \in DOMAIN line : ~IsSpace(line[k])}
    IN  IF ns = {} THEN <<>>
        ELSE SubSeq(line, CHOOSE k \in ns : \A n \in ns : k <= n,
                          CHOOSE k \in ns : \A n \in ns : k >= n)

\* the verb of the line, whatever its case, is APPEND
VerbIsAppend(line) ==
    LET t == Trimmed(line)
    IN  \E p \in DOMAIN t :
            /\ t[p] = SP
            /\ NoSpace(SubSeq(t, 1, p - 1))
            /\ LET r == SubSeq(t, p + 1, Len(t))
               IN  \/ lower(r) = <<"a", "p", "p", "e", "n", "d">>
                   \/ \E q \in DOMAIN r :
                         r[q] = SP /\ lower(SubSeq(r, 1, q - 1)) = <<"a",
                                                                     "p",
                                                                     "p",
                                                                     "e",
                                                                     "n", "d">>

\* what the session has written upstream for log[i] is the two sends of
\* handle_append, not a line sent by forward_and_relay
Intercepted(i) ==
    /\ log[i].cmd = APPEND
    /\ \A j \in WrittenFor(i) : server_out[j].kind \in {"first", "body"}
    /\ i < Len(log) => log[i].size >= 0

\* C31 as stated: every line the session has read was split on its first
\* two ASCII spaces, the line terminator apart: the tag is the first field
\* as the client sent it, the verb is the second in upper case, and rest is
\* all that follows the second space up to the line terminator.
C31_SplitVerbatim ==
    \A i \in DOMAIN log :
        SplitOnTwoSpaces(Unterminated(log[i].line),
                         [tag |-> log[i].tag, cmd |-> log[i].cmd,
                          rest |-> log[i].rest])

\* C31 amended: every line the session has read was split on its first two
\* ASCII spaces after the whitespace at its two ends, the line terminator
\* included, was removed: the tag is the first field as the client sent it,
\* the verb is the second in upper case, rest is what follows the second
\* space without trailing whitespace; and a line whose verb is APPEND in
\* any case is intercepted.
C31_SplitStripped ==
    \A i \in DOMAIN log :
        /\ SplitOnTwoSpaces(Trimmed(log[i].line),
                            [tag |-> log[i].tag, cmd |-> log[i].cmd,
                             rest |-> log[i].rest])
        /\ VerbIsAppend(log[i].line) => Intercepted(i)

\* an APPEND in lower case has been intercepted, its message delivered in
\* the two sends of handle_append and its tagged completion relayed
C31_Witness ==
    /\ Len(log) = 1
    /\ log[1].line = CommandLine(Tag(1), "append_lower", MsgLow)
    /\ log[1].tag = Tag(1)
    /\ log[1].cmd = APPEND
    /\ log[1].decision = "deliver"
    /\ Cardinality(WrittenFor(1)) = 2
    /\ TaggedLines(log[1].tag) # {}

\* C32: while forward_and_relay relays the responses to a client line, the
\* tag it waits for is the tag parse_command returned for that line, and it
\* has not relayed the tagged completion of that command yet (or it would
\* have stopped).
C32_SameTag ==
    pc = "forward_and_relay" =>
        /\ relay = Cur.tag
        /\ \A j \in DOMAIN client_out :
              client_out[j].n = Len(log) => ~is_tagged(client_out[j].data, Cur.tag)

\* log[i] is an APPEND of which the client closed its connection before the
\* N bytes of the literal and the CRLF after them had arrived
Cut(i) ==
    /\ log[i].cmd = APPEND
    /\ literal_size(log[i].rest) >= 0
    /\ client_eof
    /\ Len(client_in) - (log[i].at + Len(log[i].line)) < literal_size(log[i].rest) + 2

\* C33: an APPEND whose literal the client did not send in full before it
\* closed leaves no trace once read_literal has failed: it is the session's
\* last command, no decision was taken and no record inserted, nothing was
\* written upstream for it, the session made up no response for it, the
\* session is in its finally block or past it, and past it both
\* connections are closed.
C33_NoTrace ==
    \A i \in DOMAIN log :
        (Cut(i) /\ ~(i = Len(log) /\ pc = "handle_append")) =>
            /\ i = Len(log)
            /\ log[i].decision = "none"
            /\ Cardinality(DOMAIN quarantine_store) = Cardinality(HeldIndices)
            /\ WrittenFor(i) = {}
            /\ \A j \in DOMAIN client_out :
                  client_out[j].n = i => client_out[j].src # "proxy"
            /\ pc \in {"finally", "closed"}
            /\ pc = "closed" => (closed.server /\ closed.client)

\* the client sent the APPEND line and part of the literal and closed; the
\* session has ended with both connections closed
C33_Witness ==
    \E i \in DOMAIN log :
        /\ Cut(i)
        /\ Len(client_in) > log[i].at + Len(log[i].line)
        /\ error = "IncompleteReadError"
        /\ pc = "closed"
        /\ closed.server /\ closed.client
        /\ quarantine_store = <<>>

\* the commands for which the client has been sent the held-OK response
HeldOkSent ==
    {i \in DOMAIN log :
        \E j \in DOMAIN client_out :
            /\ client_out[j].n = i
            /\ client_out[j].src = "proxy"
            /\ client_out[j].data = HeldOk(log[i].tag)}

\* C34: no step, of a session or of the API, takes a record out of the
\* store; GET for a record whose status delete has set answers with the
\* record; and for every held-OK the client has been sent there is a record
\* in the store, with the metadata of that message.
C34_NeverRemoved ==
    /\ [](\A i \in HeldOkSent :
             \E id \in DOMAIN quarantine_store :
                 quarantine_store[id].meta = log[i].meta)
    /\ [](Cardinality(DOMAIN quarantine_store) >= Cardinality(HeldOkSent))
    /\ [][ /\ DOMAIN quarantine_store \subseteq DOMAIN quarantine_store'
           /\ \A id \in DOMAIN quarantine_store :
                 (quarantine_store[id].status = "deleted" /\ get_quarantined_email(id)) =>
                     response' = [status_code |-> 200,
                                  body |-> with_id(id, quarantine_store[id])]
         ]_vars

\* the first record's status was set by delete, a second message has been
\* held since and its held-OK sent, and a call has answered with the first
\* record
C34_Witness ==
    /\ Cardinality(HeldOkSent) = 2
    /\ DOMAIN quarantine_store = {"1", "2"}
    /\ quarantine_store["1"].status = "deleted"
    /\ quarantine_store["2"].status = "held"
    /\ response = [status_code |-> 200,
                   body |-> with_id("1", quarantine_store["1"])]

\* C35: approve and delete on an existing record change nothing but its
\* status, which becomes the call's own whatever it was before (so the last
\* call of a sequence decides), and a call on a record that has the call's
\* status already leaves the store as it is (so a second call changes
\* nothing).
C35_LastCallWins ==
    [][ \A id \in DOMAIN quarantine_store :
          /\ approve_quarantined_email(id) =>
                /\ quarantine_store' =
                      [quarantine_store EXCEPT ![id].status = "approved"]
                /\ quarantine_store[id].status = "approved" =>
                      quarantine_store' = quarantine_store
          /\ delete_quarantined_email(id) =>
                /\ quarantine_store' =
                      [quarantine_store EXCEPT ![id].status = "deleted"]
                /\ quarantine_store[id].status = "deleted" =>
                      quarantine_store' = quarantine_store
      ]_vars

\* both dispositions have been set, one on each of two records, and the
\* last answer is the approved record
C35_Witness ==
    /\ DOMAIN quarantine_store = {"1", "2"}
    /\ quarantine_store["1"].status = "deleted"
    /\ quarantine_store["2"].status = "approved"
    /\ response = [status_code |-> 200,
                   body |-> with_id("2", quarantine_store["2"])]

\* C36: no two accounts in the store have the same email; a create with an
\* email that is in the store answers 409 and leaves the store unchanged;
\* an update or a delete of an identifier that is not in the store answers
\* 404 and leaves the store unchanged.
C36_UniqueEmails ==
    /\ [](\A a, b \in DOMAIN accounts_store :
             a # b => accounts_store[a].email # accounts_store[b].email)
    /\ [][ /\ \A account \in AccountIn :
                 (/\ create_account(account)
                  /\ \E aid \in DOMAIN accounts_store :
                        accounts_store[aid].email = account.email) =>
                     (response'.status_code = 409 /\ accounts_store' = accounts_store)
           /\ \A account_id \in AccountIds \ DOMAIN accounts_store :
                 /\ \A account \in AccountIn :
                       update_account(account_id, account) =>
                           (response'.status_code = 404 /\ accounts_store' = accounts_store)
                 /\ delete_account(account_id) =>
                       (response'.status_code = 404 /\ accounts_store' = accounts_store)
         ]_vars

\* C37: once the TLS context or the TLS listener has failed, main_async
\* serves the cleartext listener alone, and that listener accepts (as long
\* as the bound on connections allows); every connection accepted has a
\* session and a ProxyConfig of its own, through a listener that was
\* started; and when the cleartext listener failed to start no listener
\* was started, none serves, and no connection was accepted.
C37_PlainSurvivesTls ==
    /\ tls_error # "none" =>
          /\ main_pc = "serving"
          /\ servers = <<"plain">>
          /\ Len(sessions) < MaxConns => ENABLED imap_client_handler("plain")
    /\ \A i, j \in DOMAIN sessions :
          i # j => /\ sessions[i].session # sessions[j].session
                   /\ sessions[i].config # sessions[j].config
    /\ \A i \in DOMAIN sessions : \E k \in DOMAIN servers : servers[k] = sessions[i].via
    /\ main_pc = "failed" =>
          /\ servers = <<>>
          /\ sessions = <<>>
          /\ ~ENABLED imap_client_handler("plain")
          /\ ~ENABLED imap_client_handler("tls")

\* the TLS context could not be built; the cleartext listener has accepted
\* two connections since, each with its own configuration
C37_Witness ==
    /\ tls_error = "build_ssl_context"
    /\ Len(sessions) = 2
    /\ sessions[1].via = "plain" /\ sessions[2].via = "plain"
    /\ sessions[1].config # sessions[2].config

\* the places in calls of the calls of one kind, and of those for one email
Calls(op) == {k \in DOMAIN calls : calls[k].op = op}
CallsFor(op, id) == {k \in Calls(op) : calls[k].id = id}

\* C38: for each email at most one of the two counters was incremented, and
\* the counters are the numbers of those increments, so that their sum is
\* at most the number of unread emails found; mark_as_read is called for an
\* email only after its fetch gave a message and after as many calls of
\* process_attachment as attachments were found; and an email whose fetch
\* gave no message is counted as failed and mark_as_read is not called for
\* it.
C38_Counters ==
    /\ processed_count = Cardinality(Calls("processed"))
    /\ failed_count = Cardinality(Calls("failed"))
    /\ \A id \in 1 .. MaxEmails :
          Cardinality(CallsFor("processed", id) \cup CallsFor("failed", id)) <= 1
    /\ processed_count + failed_count <= Len(email_ids)
    /\ \A k \in Calls("mark_as_read") :
          LET id == calls[k].id
          IN  /\ \E f \in CallsFor("fetch_email", id) :
                    f < k /\ calls[f].got = "message"
              /\ \E g \in CallsFor("get_attachments", id) :
                    /\ g < k
                    /\ Cardinality({a \in CallsFor("process_attachment", id) :
                                       g < a /\ a < k}) = calls[g].n
    /\ \A f \in Calls("fetch_email") :
          calls[f].got = "None" =>
              /\ CallsFor("failed", calls[f].id) # {}
              /\ CallsFor("mark_as_read", calls[f].id) = {}

\* run has returned: one email's fetch failed, the other had two
\* attachments and was marked as read and counted as processed
C38_Witness ==
    /\ tool_pc = "done"
    /\ Len(email_ids) = 2
    /\ processed_count = 1 /\ failed_count = 1
    /\ \E f \in Calls("fetch_email") : calls[f].got = "None"
    /\ \E g \in Calls("get_attachments") : calls[g].n = 2
    /\ Cardinality(Calls("mark_as_read")) = 1

\* C39: run makes no call of cleanup_temp_files and at most one of
\* disconnect before it returns; when it has returned, its last two calls
\* are disconnect and then cleanup_temp_files, each called once; once the
\* return value is set the finally block is all that is left; and the
\* value is True only if connect and select_folder both answered True and no
\* exception reached run's except clause.
C39_Finally ==
    /\ Cardinality(Calls("disconnect")) <= 1
    /\ tool_pc # "done" => Calls("cleanup_temp_files") = {}
    /\ tool_pc = "done" =>
          /\ Len(calls) >= 2
          /\ Calls("disconnect") = {Len(calls) - 1}
          /\ Calls("cleanup_temp_files") = {Len(calls)}
          /\ result \in {"True", "False"}
    /\ result # "none" <=> tool_pc \in {"disconnect", "cleanup_temp_files", "done"}
    /\ result = "True" =>
          /\ \E k \in Calls("connect") : calls[k].got = "True"
          /\ \E k \in Calls("select_folder") : calls[k].got = "True"
          /\ Calls("except") = {}

\* run has returned False through its except clause, after connect and
\* select_folder had succeeded and an email had been processed
C39_Witness ==
    /\ tool_pc = "done"
    /\ result = "False"
    /\ Calls("except") # {}
    /\ processed_count = 1
    /\ calls[Len(calls) - 1].op = "disconnect"
    /\ calls[Len(calls)].op = "cleanup_temp_files"

====
